---- MODULE Spec2Model ----
(***************************************************************************)
(* Model of the orchestration core of multi-agent-lab: the agent registry  *)
(* (agents/registry.py), the task classifier and router                    *)
(* (agents/router.py) and the Supervisor pipeline (agents/supervisor.py),  *)
(* together with the critic and synthesizer workers it drives.             *)
(*                                                                         *)
(* Python strings are TLA+ strings; TLC evaluates Len, SubSeq and \o on    *)
(* them, so substring tests, lower-casing and concatenation are computed   *)
(* character by character.  TLA+ string literals are ASCII: the Cyrillic   *)
(* keyword markers of the source are left out of the marker lists, which   *)
(* changes nothing for the ASCII task texts the model draws.               *)
(***************************************************************************)
EXTENDS Integers, Sequences, FiniteSets, TLC

VARIABLES
    cTask,      \* classifier harness: the argument of classify_task_type
    cType,      \* classifier harness: the value returned ("?" before the call)
    REGISTRY,   \* registry._REGISTRY: lower-cased name -> registered class
    regLast,    \* registry harness: the last registry call and its outcome
    firstReg,   \* history: name -> class of its first successful registration
    nInst,      \* number of agent instances constructed so far
    statsDb,    \* db runs table: solver name -> count, for the task's type
    prefsDb,    \* agent_configs table: name -> preferred_task_types list
    rArgs,      \* router harness: the arguments of rank_agents / pick_top
    rOut,       \* router harness: the call made and the value returned
    ctor,       \* the arguments Supervisor(...) was constructed with
    sup,        \* the Supervisor object: the fields __init__ sets
    pc,         \* Supervisor.run: the stage the call has reached
    task,       \* Supervisor.run: argument task
    memory,     \* Supervisor.run: argument memory
    context,    \* Supervisor.run: the context dict of the call
    loc,        \* Supervisor.run: the other local variables of the call
    calls,      \* the worker and router calls made by the run, in order
    result,     \* the dict Supervisor.run returned
    prev        \* the dict an earlier run of the same Supervisor returned

classVars == <<cTask, cType>>
regVars == <<REGISTRY, regLast, firstReg, nInst>>
envVars == <<statsDb, prefsDb>>
routerVars == <<rArgs, rOut>>
supVars == <<ctor, sup, pc, task, memory, context, loc, calls, result, prev>>
vars == <<cTask, cType, REGISTRY, regLast, firstReg, nInst, statsDb, prefsDb,
          rArgs, rOut, ctor, sup, pc, task, memory, context, loc, calls,
          result, prev>>

(***************************************************************************)
(* Python str operations                                                   *)
(***************************************************************************)

\* Python's None, where an argument may be None instead of a str.
None == "<None>"

(* The state of each harness while another one runs. *)
NoOp == [op |-> "none"]

ClassifyIdle == cTask = None /\ cType = "?"

RegistryIdle ==
    /\ REGISTRY = <<>>
    /\ regLast = NoOp
    /\ firstReg = <<>>
    /\ nInst = 0

EnvIdle == statsDb = <<>> /\ prefsDb = <<>>

RouterIdle == rArgs = NoOp /\ rOut = NoOp

SupervisorIdle ==
    /\ ctor = NoOp /\ sup = NoOp /\ pc = "none" /\ task = None
    /\ memory = <<>> /\ context = <<>> /\ loc = <<>> /\ calls = <<>>
    /\ result = NoOp /\ prev = NoOp

\* `m in t` for two str values.
Contains(t, m) ==
    \E i \in 1..(Len(t) - Len(m) + 1) : SubSeq(t, i, i + Len(m) - 1) = m

\* any(m in t for m in markers)
AnyIn(markers, t) == \E m \in markers : Contains(t, m)

LowerChar(c) ==
    CASE c = "A" -> "a" [] c = "B" -> "b" [] c = "C" -> "c" [] c = "D" -> "d"
      [] c = "E" -> "e" [] c = "F" -> "f" [] c = "G" -> "g" [] c = "H" -> "h"
      [] c = "I" -> "i" [] c = "J" -> "j" [] c = "K" -> "k" [] c = "L" -> "l"
      [] c = "M" -> "m" [] c = "N" -> "n" [] c = "O" -> "o" [] c = "P" -> "p"
      [] c = "Q" -> "q" [] c = "R" -> "r" [] c = "S" -> "s" [] c = "T" -> "t"
      [] c = "U" -> "u" [] c = "V" -> "v" [] c = "W" -> "w" [] c = "X" -> "x"
      [] c = "Y" -> "y" [] c = "Z" -> "z" [] OTHER -> c

\* str.lower(), by halves so that the recursion depth is logarithmic.
RECURSIVE Lower(_)
Lower(s) ==
    IF Len(s) <= 1 THEN LowerChar(s)
    ELSE LET h == Len(s) \div 2
         IN  Lower(SubSeq(s, 1, h)) \o Lower(SubSeq(s, h + 1, Len(s)))

IsSpace(c) == c \in {" ", "\n", "\t", "\r"}

\* The first index from i upward, and the last from i downward, whose
\* character is not white space.
RECURSIVE SkipSpacesUp(_, _)
SkipSpacesUp(s, i) ==
    IF i <= Len(s) /\ IsSpace(SubSeq(s, i, i)) THEN SkipSpacesUp(s, i + 1)
    ELSE i

RECURSIVE SkipSpacesDown(_, _)
SkipSpacesDown(s, i) ==
    IF i >= 1 /\ IsSpace(SubSeq(s, i, i)) THEN SkipSpacesDown(s, i - 1)
    ELSE i

\* str.strip()
Strip(s) == SubSeq(s, SkipSpacesUp(s, 1), SkipSpacesDown(s, Len(s)))

\* s.startswith(p)
StartsWith(s, p) == Len(s) >= Len(p) /\ SubSeq(s, 1, Len(p)) = p

\* str.splitlines(), for texts whose only line break is "\n".
SplitLines(s) ==
    IF s = "" THEN <<>>
    ELSE LET breaks == {i \in 1..Len(s) : SubSeq(s, i, i) = "\n"}
             n == Cardinality(breaks)
             brk(k) == IF k = 0 THEN 0
                       ELSE IF k = n + 1 THEN Len(s) + 1
                       ELSE CHOOSE i \in breaks :
                                Cardinality({j \in breaks : j < i}) = k - 1
             count == IF Len(s) \in breaks THEN n ELSE n + 1
         IN  [k \in 1..count |-> SubSeq(s, brk(k - 1) + 1, brk(k) - 1)]

\* re.sub(r"\s+", " ", s) on the characters lo..hi of s, by halves.
RECURSIVE CollapseRange(_, _, _)
CollapseRange(s, lo, hi) ==
    IF lo > hi THEN ""
    ELSE IF lo = hi THEN
        IF ~IsSpace(SubSeq(s, lo, lo)) THEN SubSeq(s, lo, lo)
        ELSE IF lo > 1 /\ IsSpace(SubSeq(s, lo - 1, lo - 1)) THEN ""
        ELSE " "
    ELSE LET mid == (lo + hi) \div 2
         IN  CollapseRange(s, lo, mid) \o CollapseRange(s, mid + 1, hi)

CollapseSpaces(s) == CollapseRange(s, 1, Len(s))

\* The characters of the model's texts in code-point order (str comparison).
OrdChars ==
    " '-0123456789ABCDEFGHIJKLMNOPQRSTUVWXYZ_abcdefghijklmnopqrstuvwxyz"

Ord(c) == CHOOSE i \in 1..Len(OrdChars) : SubSeq(OrdChars, i, i) = c

\* a < b for two str values (lexicographic by code point).
RECURSIVE StrLess(_, _)
StrLess(a, b) ==
    IF Len(b) = 0 THEN FALSE
    ELSE IF Len(a) = 0 THEN TRUE
    ELSE LET ca == Ord(SubSeq(a, 1, 1))
             cb == Ord(SubSeq(b, 1, 1))
         IN  IF ca # cb THEN ca < cb
             ELSE StrLess(SubSeq(a, 2, Len(a)), SubSeq(b, 2, Len(b)))

\* sorted(S) for a set of str.
RECURSIVE Sorted(_)
Sorted(S) ==
    IF S = {} THEN <<>>
    ELSE LET m == CHOOSE x \in S : \A y \in S \ {x} : StrLess(x, y)
         IN  <<m>> \o Sorted(S \ {m})

\* sep.join(items)
RECURSIVE Join(_, _)
Join(sep, items) ==
    IF Len(items) = 0 THEN ""
    ELSE IF Len(items) = 1 THEN items[1]
    ELSE items[1] \o sep \o Join(sep, Tail(items))

\* repr() of a list of str, as an f-string renders it.
ReprList(items) ==
    "[" \o Join(", ", [i \in 1..Len(items) |-> "'" \o items[i] \o "'"]) \o "]"

SeqToSet(q) == {q[i] : i \in 1..Len(q)}

(***************************************************************************)
(* agents/router.py: the task classifier                                   *)
(***************************************************************************)

docs_markers == {"readme", "documentation", "docs", "guide", "installation"}

explain_markers ==
    {"explain", "difference", "compare", "vs", "versus", "roles of",
     "summary", "summarize", "overview"}

code_markers ==
    {"code", "bug", "error", "traceback", "exception", "syntaxerror",
     "stack trace"}

db_markers == {"database", "dataset", "runs"}

plan_markers == {"plan", "planning", "roadmap", "outline"}

meta_markers == {"trainer", "meta"}

\* The mutant checks the plan rule before the explain rule.
classify_plan_first(tsk) ==
    LET t == Lower(IF tsk = None THEN "" ELSE tsk)
    IN  IF AnyIn(docs_markers, t) THEN "docs"
        ELSE IF AnyIn(plan_markers, t) THEN "plan"
        ELSE IF AnyIn(explain_markers, t) THEN "explain"
        ELSE IF AnyIn(code_markers, t) THEN "code"
        ELSE IF AnyIn(db_markers, t) THEN "db_analysis"
        ELSE IF AnyIn(meta_markers, t) THEN "meta"
        ELSE "other"

classify_task_type(tsk) ==
    LET t == Lower(IF tsk = None THEN "" ELSE tsk)
    IN  IF AnyIn(docs_markers, t) THEN "docs"
        ELSE IF AnyIn(explain_markers, t) THEN "explain"
        ELSE IF AnyIn(code_markers, t) THEN "code"
        ELSE IF AnyIn(db_markers, t) THEN "db_analysis"
        ELSE IF AnyIn(plan_markers, t) THEN "plan"
        ELSE IF AnyIn(meta_markers, t) THEN "meta"
        ELSE "other"

infer_task_type(tsk) == classify_task_type(tsk)

(***************************************************************************)
(* agents/registry.py                                                      *)
(*                                                                         *)
(* A class is a record: cname is the Python class, name its `name`         *)
(* attribute.  A raised exception is recorded in the outcome of the call.  *)
(***************************************************************************)


\* register_agent(cls): the registry after the call and the call's outcome.
register_agent(reg, cls) ==
    LET name == Lower(cls.name)
    IN  IF name = "" THEN
            [registry |-> reg, raised |-> "ValueError", returned |-> None]
        ELSE
            [registry |-> (name :> cls) @@ reg, raised |-> "",
             returned |-> cls.cname]

list_agents(reg) == Sorted(DOMAIN reg)

\* The mutant's message leaves the registered names out.
get_agent_class_terse(reg, name) ==
    LET key == Lower(name)
    IN  IF key \notin DOMAIN reg THEN
            [raised |-> "KeyError",
             message |-> "Agent '" \o name \o "' not found.",
             cls |-> None]
        ELSE [raised |-> "", message |-> "", cls |-> reg[key]]

get_agent_class(reg, name) ==
    LET key == Lower(name)
    IN  IF key \notin DOMAIN reg THEN
            [raised |-> "KeyError",
             message |-> "Agent '" \o name \o "' not found. Available: "
                           \o ReprList(list_agents(reg)),
             cls |-> None]
        ELSE [raised |-> "", message |-> "", cls |-> reg[key]]

\* create_agent(name): cls() is a new object, numbered by construction order.
create_agent(reg, name, made) ==
    LET got == get_agent_class(reg, name)
    IN  IF got.raised # "" THEN
            [raised |-> got.raised, message |-> got.message,
             instance |-> None, made |-> made]
        ELSE
            [raised |-> "", message |-> "",
             instance |-> [cls |-> got.cls, id |-> made + 1],
             made |-> made + 1]

(***************************************************************************)
(* Agent classes.  PlannerAgent, CriticAgent and SynthesizerAgent are the  *)
(* classes of agents/planner.py, critic.py and synthesizer.py.  Solver     *)
(* workers are any implementation of BaseAgent: a class says what its      *)
(* can_handle returns (score, in hundredths) or that it raises, and what   *)
(* its run returns (reply) or that it raises (fails).                      *)
(***************************************************************************)

PlannerAgent ==
    [cname |-> "PlannerAgent", name |-> "planner", kind |-> "planner",
     raises |-> FALSE, score |-> 60, fails |-> FALSE, reply |-> ""]

CriticAgent ==
    [cname |-> "CriticAgent", name |-> "critic", kind |-> "critic",
     raises |-> FALSE, score |-> 100, fails |-> FALSE, reply |-> ""]

SynthesizerAgent ==
    [cname |-> "SynthesizerAgent", name |-> "synthesizer",
     kind |-> "synthesizer",
     raises |-> FALSE, score |-> 0, fails |-> FALSE, reply |-> ""]

Worker(cname, name, raises, score, fails, reply) ==
    [cname |-> cname, name |-> name, kind |-> "worker",
     raises |-> raises, score |-> score, fails |-> fails, reply |-> reply]

\* agent.can_handle(task, context)
can_handle(cls, tsk, ctx) ==
    [raised |-> cls.raises, value |-> cls.score]

(***************************************************************************)
(* agents/router.py: rank_agents and pick_top                              *)
(*                                                                         *)
(* Scores are exact multiples of 1/(100 * CountLcm), where CountLcm is the *)
(* least common multiple of the counts 1..MaxCount, so that                *)
(* 0.2 * cnt / max_count is an integer number of units; Python computes    *)
(* the same values in binary floating point.                               *)
(***************************************************************************)

MaxCount == 2

RECURSIVE Gcd(_, _)
Gcd(a, b) == IF b = 0 THEN a ELSE Gcd(b, a % b)

RECURSIVE LcmUpTo(_)
LcmUpTo(n) == IF n <= 1 THEN 1 ELSE LET l == LcmUpTo(n - 1) IN (l * n) \div Gcd(l, n)

CountLcm == LcmUpTo(MaxCount)

DEFAULT_EXCLUDE == {"planner", "critic"}

MaxOf(S) == CHOOSE x \in S : \A y \in S : y <= x

\* The mutant puts an entry before the earlier entries of equal score.
RECURSIVE SortByScoreDescUnstable(_)
SortByScoreDescUnstable(q) ==
    IF Len(q) = 0 THEN <<>>
    ELSE LET front == SortByScoreDescUnstable(SubSeq(q, 1, Len(q) - 1))
             x == q[Len(q)]
             k == Cardinality({i \in 1..Len(front) : front[i][2] > x[2]})
         IN  SubSeq(front, 1, k) \o <<x>> \o SubSeq(front, k + 1, Len(front))

\* list.sort(key=lambda x: x[1], reverse=True): stable, descending.
RECURSIVE SortByScoreDesc(_)
SortByScoreDesc(q) ==
    IF Len(q) = 0 THEN <<>>
    ELSE LET front == SortByScoreDesc(SubSeq(q, 1, Len(q) - 1))
             x == q[Len(q)]
             k == Cardinality({i \in 1..Len(front) : front[i][2] >= x[2]})
         IN  SubSeq(front, 1, k) \o <<x>> \o SubSeq(front, k + 1, Len(front))

\* The mutant clamps the score at 1.0.
AgentScoreClamped(reg, name, tsk, ctx, task_type, stats, agent_prefs) ==
    LET max_count == IF DOMAIN stats # {}
                     THEN MaxOf({stats[n] : n \in DOMAIN stats}) ELSE 0
        got == can_handle(reg[name], tsk, ctx)
        base_score == IF got.raised THEN 0 ELSE got.value * CountLcm
        cnt == IF name \in DOMAIN stats THEN stats[name] ELSE 0
        bonus == IF DOMAIN stats # {} /\ max_count > 0 /\ cnt > 0
                 THEN (20 * CountLcm * cnt) \div max_count ELSE 0
        pref_bonus == IF /\ name \in DOMAIN agent_prefs
                         /\ task_type \in SeqToSet(agent_prefs[name])
                      THEN 30 * CountLcm ELSE 0
        score == base_score + bonus + pref_bonus
    IN  IF score > 100 * CountLcm THEN 100 * CountLcm ELSE score

\* The score rank_agents gives one agent.
AgentScore(reg, name, tsk, ctx, task_type, stats, agent_prefs) ==
    LET max_count == IF DOMAIN stats # {}
                     THEN MaxOf({stats[n] : n \in DOMAIN stats}) ELSE 0
        got == can_handle(reg[name], tsk, ctx)
        base_score == IF got.raised THEN 0 ELSE got.value * CountLcm
        cnt == IF name \in DOMAIN stats THEN stats[name] ELSE 0
        bonus == IF DOMAIN stats # {} /\ max_count > 0 /\ cnt > 0
                 THEN (20 * CountLcm * cnt) \div max_count ELSE 0
        pref_bonus == IF /\ name \in DOMAIN agent_prefs
                         /\ task_type \in SeqToSet(agent_prefs[name])
                      THEN 30 * CountLcm ELSE 0
    IN  base_score + bonus + pref_bonus

\* The mutant has no try/except: a worker whose can_handle raises gets no
\* entry.
rank_agents_no_except(tsk, ctx, exclude, reg, stats, agent_prefs) ==
    LET ex == DEFAULT_EXCLUDE \cup exclude
        task_type == classify_task_type(tsk)
        names == SelectSeq(list_agents(reg),
                           LAMBDA n : n \notin ex
                                        /\ ~can_handle(reg[n], tsk, ctx).raised)
        scores == [i \in 1..Len(names) |->
                     <<names[i],
                       AgentScore(reg, names[i], tsk, ctx, task_type,
                                  stats, agent_prefs)>>]
    IN  SortByScoreDesc(scores)

\* rank_agents(task, memory, context, exclude), reading the registry, the
\* runs table (stats) and the agent_configs table (agent_prefs).  exclude is
\* a set; the empty set stands for None too (`if exclude:`).
rank_agents(tsk, ctx, exclude, reg, stats, agent_prefs) ==
    LET ex == DEFAULT_EXCLUDE \cup exclude
        task_type == classify_task_type(tsk)
        names == SelectSeq(list_agents(reg), LAMBDA n : n \notin ex)
        scores == [i \in 1..Len(names) |->
                     <<names[i],
                       AgentScore(reg, names[i], tsk, ctx, task_type,
                                  stats, agent_prefs)>>]
    IN  SortByScoreDesc(scores)

\* seq[:k]
SliceTo(q, k) ==
    IF k >= 0 THEN SubSeq(q, 1, IF k < Len(q) THEN k ELSE Len(q))
    ELSE SubSeq(q, 1, Len(q) + k)

\* pick_top(task, memory, k, context, exclude)
pick_top(tsk, k, ctx, exclude, reg, stats, agent_prefs) ==
    LET ranked == rank_agents(tsk, ctx, exclude, reg, stats, agent_prefs)
        head == SliceTo(ranked, k)
        kept == SelectSeq(head, LAMBDA e : e[2] > 0)
    IN  [i \in 1..Len(kept) |-> kept[i][1]]

(***************************************************************************)
(* Registry harness: any sequence of register_agent and create_agent calls *)
(* over RegClasses and LookupNames, at most MaxInstances constructions.    *)
(***************************************************************************)

MaxInstances == 2

RegClasses ==
    {[cname |-> "PlannerAgent", name |-> "planner"],
     [cname |-> "WriterAgent",  name |-> "writer"],
     [cname |-> "WriterV2",     name |-> "Writer"],
     [cname |-> "CoderAgent",   name |-> "coder"],
     [cname |-> "CoderStub",    name |-> "CODER"],
     [cname |-> "Nameless",     name |-> ""]}

LookupNames == {"planner", "writer", "WRITER", "Coder", "ghost"}

InitRegistry ==
    /\ RegistryIdle
    /\ ClassifyIdle
    /\ EnvIdle
    /\ RouterIdle
    /\ SupervisorIdle

Register(cls) ==
    LET r == register_agent(REGISTRY, cls)
        key == Lower(cls.name)
    IN  /\ REGISTRY' = r.registry
        /\ regLast' = [op |-> "register", arg |-> cls, key |-> key,
                       pre |-> REGISTRY, present |-> key \in DOMAIN REGISTRY,
                       raised |-> r.raised, returned |-> r.returned]
        /\ firstReg' = IF r.raised = "" /\ key \notin DOMAIN firstReg
                       THEN (key :> cls) @@ firstReg ELSE firstReg
        /\ UNCHANGED <<nInst, classVars, envVars, routerVars, supVars>>

Create(name) ==
    LET r == create_agent(REGISTRY, name, nInst)
    IN  /\ nInst < MaxInstances
        /\ nInst' = r.made
        /\ regLast' = [op |-> "create", arg |-> name, key |-> Lower(name),
                       pre |-> REGISTRY, made |-> nInst,
                       raised |-> r.raised, message |-> r.message,
                       instance |-> r.instance]
        /\ UNCHANGED <<REGISTRY, firstReg, classVars, envVars, routerVars, supVars>>

NextRegistry ==
    \/ \E cls \in RegClasses : Register(cls)
    \/ \E name \in LookupNames : Create(name)

SpecRegistry == InitRegistry /\ [][NextRegistry]_vars

(***************************************************************************)
(* agents/planner.py, agents/critic.py, agents/synthesizer.py              *)
(***************************************************************************)

\* Planner.plan(task)
PlannerPlan ==
    <<"Understand the task and expected output format",
      "Extract key points and constraints",
      "Draft an answer",
      "Run self-critique",
      "Revise and finalize">>

\* dict.get(key, default)
Get(d, key, default) == IF key \in DOMAIN d THEN d[key] ELSE default

has_heading(text) == Contains(text, "## ") \/ Contains(text, "\n#")

count_bullets(text) ==
    Len(SelectSeq(SplitLines(text), LAMBDA ln : StartsWith(Strip(ln), "- ")))

looks_meta_template(text) ==
    AnyIn({"identify the core request", "provide a concise answer",
           "include a quick self-check", "define each concept",
           "explain the purpose", "show a simple contrast",
           "summarize the takeaway", "concept a:", "concept b:",
           "key difference:", "when to choose each", "draft starter",
           "suggested outline", "approach:"}, Lower(text))

looks_too_generic(text) ==
    /\ AnyIn({"looks ok", "minor polish", "consider constraints",
              "kept concise", "merged from selected agents"}, Lower(text))
    /\ Len(text) < 400

needs_steps(tsk) ==
    AnyIn({"plan", "planning", "strategy", "roadmap", "outline", "steps",
           "installation", "readme"}, Lower(tsk))

\* The notes and tags of CriticAgent.run, one rule after the other.
CriticRules(tsk, draft) ==
    <<[on |-> ~has_heading(draft) /\ count_bullets(draft) < 2,
       note |-> "Add clearer structure (headings or bullet points).",
       tag |-> "missing_structure"],
      [on |-> needs_steps(tsk) /\ count_bullets(draft) < 3,
       note |-> "Add more explicit steps/checklist items for this task.",
       tag |-> "missing_steps"],
      [on |-> looks_meta_template(draft),
       note |-> "Response looks like a meta-template; add task-specific content.",
       tag |-> "meta_template"],
      [on |-> looks_too_generic(draft),
       note |-> "Answer may be too generic; add 2-3 concrete points.",
       tag |-> "too_generic"],
      [on |-> Len(Strip(draft)) < 120 /\ ~Contains(Lower(draft), "summary"),
       note |-> "Consider expanding slightly for clarity.",
       tag |-> "too_short"]>>

\* The mutant tests the draft for emptiness without stripping it.
CriticRunUnstripped(tsk, mem, ctx) ==
    LET got == Get(ctx, "draft", "")
        draft == IF got = None THEN "" ELSE got
    IN  IF draft = "" THEN
            [notes |-> <<"No draft provided for critique.">>,
             tags |-> <<"missing_draft">>]
        ELSE
            LET fired == SelectSeq(CriticRules(tsk, draft), LAMBDA r : r.on)
                notes == [i \in 1..Len(fired) |-> fired[i].note]
                tags == [i \in 1..Len(fired) |-> fired[i].tag]
            IN  [notes |-> IF Len(notes) = 0
                           THEN <<"Looks ok. Minor polish only.">> ELSE notes,
                 tags |-> tags]

\* CriticAgent.run(task, memory, context): its AgentResult.output.  A draft
\* of None counts as "" (context.get("draft", "") or "").
CriticRun(tsk, mem, ctx) ==
    LET got == Get(ctx, "draft", "")
        draft == IF got = None THEN "" ELSE got
    IN  IF Strip(draft) = "" THEN
            [notes |-> <<"No draft provided for critique.">>,
             tags |-> <<"missing_draft">>]
        ELSE
            LET fired == SelectSeq(CriticRules(tsk, draft), LAMBDA r : r.on)
                notes == [i \in 1..Len(fired) |-> fired[i].note]
                tags == [i \in 1..Len(fired) |-> fired[i].tag]
            IN  [notes |-> IF Len(notes) = 0
                           THEN <<"Looks ok. Minor polish only.">> ELSE notes,
                 tags |-> tags]

\* _bullets(lines)
bullets(lines) ==
    LET kept == SelectSeq(lines, LAMBDA l : l # "" /\ Strip(l) # "")
    IN  Join("\n", [i \in 1..Len(kept) |-> "- " \o kept[i]])

\* _extract_bullets(text)
extract_bullets(text) ==
    LET lines == SplitLines(text)
        stripped == [i \in 1..Len(lines) |-> Strip(lines[i])]
        marked == SelectSeq(stripped, LAMBDA x : StartsWith(x, "- "))
        items == [i \in 1..Len(marked) |-> Strip(SubSeq(marked[i], 3, Len(marked[i])))]
    IN  SelectSeq(items, LAMBDA it : it # "")

\* _extract_section(text, heading_names)
RECURSIVE SectionLines(_, _, _)
SectionLines(lines, targets, collecting) ==
    IF Len(lines) = 0 THEN <<>>
    ELSE LET stripped == Strip(lines[1])
         IN  IF Lower(stripped) \in targets
                 THEN SectionLines(Tail(lines), targets, TRUE)
             ELSE IF collecting /\ StartsWith(stripped, "## ") THEN <<>>
             ELSE IF collecting
                 THEN <<lines[1]>> \o SectionLines(Tail(lines), targets, TRUE)
             ELSE SectionLines(Tail(lines), targets, FALSE)

extract_section(text, heading_names) ==
    Strip(Join("\n", SectionLines(SplitLines(text),
                                  {Lower(h) : h \in heading_names}, FALSE)))

\* _dedupe_keep_order(items, max_items)
RECURSIVE DedupeFrom(_, _, _, _)
DedupeFrom(items, seen, out, max_items) ==
    IF Len(items) = 0 THEN out
    ELSE LET norm == CollapseSpaces(Lower(Strip(items[1])))
         IN  IF norm = "" \/ norm \in seen
                 THEN DedupeFrom(Tail(items), seen, out, max_items)
             ELSE IF Len(out) + 1 >= max_items
                 THEN Append(out, Strip(items[1]))
             ELSE DedupeFrom(Tail(items), seen \cup {norm},
                             Append(out, Strip(items[1])), max_items)

dedupe_keep_order(items, max_items) == DedupeFrom(items, {}, <<>>, max_items)

is_docs_task(t) ==
    AnyIn({"readme", "installation", "documentation", "docs", "guide"}, t)

is_explain_task(t) ==
    AnyIn({"explain", "difference", "compare", "why", "how", "summary",
           "summarize", "overview", "roles of", "vs", "versus"}, t)

looks_like_template_bullet(item) ==
    AnyIn({"define each concept", "explain the purpose",
           "show a simple contrast", "summarize the takeaway", "concept a:",
           "concept b:", "key difference:", "when to choose each:",
           "draft starter", "suggested outline", "approach:",
           "identify the core request", "provide a concise answer",
           "include a quick self-check"}, Strip(Lower(item)))

filter_template(items) ==
    SelectSeq(items, LAMBDA it : ~looks_like_template_bullet(it))

planning_vs_critique_summary ==
    <<"Planning is forward-looking: it breaks the task into clear steps and sets an execution strategy.",
      "Critique is evaluative: it reviews the draft to find gaps, unclear parts, or missing structure.",
      "Planning helps agents coordinate what to do next; critique checks whether the result is good enough.",
      "In our lab, Planner produces the plan, while Critic provides notes and quality tags.",
      "Those tags can influence memory flags, nudging future answers to improve.">>

multi_agent_pipeline_summary ==
    <<"Planner creates a short step-by-step plan for the task.",
      "Router scores available solver agents and helps choose the best fit.",
      "Supervisor orchestrates the flow: single-solver or team-mode.",
      "In team-mode, the system can seed agents using task profiles (docs/explain/planning).",
      "Selected agents produce drafts; Critic adds notes and tags.",
      "Synthesizer merges team outputs into a single final answer.",
      "Memory stores lightweight rules/flags to improve consistency over time.">>

\* The bullets SynthesizerAgent.run collects from the team outputs, a
\* sequence of <<name, output>> in insertion order.
RECURSIVE CollectBullets(_)
CollectBullets(team_outputs) ==
    IF Len(team_outputs) = 0 THEN <<>>
    ELSE LET text == team_outputs[1][2]
             sec == extract_section(text, {"## Answer", "## Explanation Map",
                                           "## Key Points"})
         IN  (IF sec # "" THEN extract_bullets(sec) ELSE <<>>)
               \o extract_bullets(text)
               \o CollectBullets(Tail(team_outputs))

\* SynthesizerAgent.run(task, memory, context): its AgentResult.output.
SynthesizerRun(tsk, mem, ctx) ==
    LET team_outputs == Get(ctx, "team_outputs", <<>>)
        critique_text == Get(ctx, "critique_text", "")
        t == Strip(Lower(tsk))
    IN  IF is_docs_task(t) THEN
            Strip(Join("\n",
                <<"## Installation", "", "### Purpose",
                  "This section explains how to install and verify the project setup.",
                  "", "### Steps",
                  bullets(<<"Clone the repository.",
                            "Install dependencies.",
                            "Configure environment variables if needed.",
                            "Run the project locally.",
                            "Verify the installation with a quick smoke test.">>),
                  "", "### Notes",
                  bullets(<<"Keep requirements and platform prerequisites documented.",
                            "Add OS-specific instructions if your project needs them.",
                            "Include a short troubleshooting subsection for common errors.">>)>>
                \o (IF critique_text # ""
                    THEN <<"", "### Quality checks applied", critique_text>>
                    ELSE <<>>)))
        ELSE
            LET c1 == dedupe_keep_order(CollectBullets(team_outputs), 12)
                c2 == dedupe_keep_order(filter_template(c1), 8)
                c3 == IF /\ Contains(t, "planning") /\ Contains(t, "critique")
                         /\ AnyIn({"vs", "versus", "difference"}, t)
                      THEN planning_vs_critique_summary ELSE c2
                collected ==
                    IF /\ is_explain_task(t)
                       /\ AnyIn({"multi-agent", "multi agent", "pipeline"}, t)
                    THEN multi_agent_pipeline_summary ELSE c3
            IN  Strip(Join("\n",
                    <<"## Task", tsk, "", "## Summary",
                      IF Len(collected) > 0
                      THEN bullets(SliceTo(collected, 8))
                      ELSE bullets(<<"Team outputs were merged into a concise summary.",
                                     "If you want a more specific result, add constraints or desired format.">>)>>
                    \o (IF critique_text # ""
                        THEN <<"", "## Quality notes", critique_text>>
                        ELSE <<>>)))

(***************************************************************************)
(* The worlds the router and the Supervisor are run in: a registry filled  *)
(* by register_agent, the counts the runs table gives for the task's type  *)
(* and the preferred_task_types rows of agent_configs.                     *)
(***************************************************************************)

StructuredReply == "## Answer\n- first point\n- second point\n- third point"

Analyst == Worker("AnalystAgent", "analyst", FALSE, 75, FALSE, StructuredReply)

IdleAnalyst == Worker("IdleAnalyst", "analyst", FALSE, 0, FALSE, "Looks ok.")

Writer == Worker("WriterAgent", "writer", FALSE, 10, FALSE, "A short note.")

\* A worker whose can_handle raises for every input.
BrokenWriter == Worker("BrokenWriter", "writer", TRUE, 0, FALSE, "")

Coder == Worker("CoderAgent", "coder", FALSE, 10, FALSE, StructuredReply)

\* A worker whose can_handle and run both raise.
BrokenCoder == Worker("BrokenCoder", "coder", TRUE, 0, TRUE, "")

\* A solver class that has a revise method besides run.
RevisingAnalyst == [Analyst EXCEPT !.cname = "RevisingAnalyst"]

\* callable(getattr(solver, "revise", None))
HasRevise(cls) == cls.cname = "RevisingAnalyst"

\* solver.revise(draft, critique_text) of that class.
ReviseRun(cls, draft, critique_text) ==
    "## Revised\n" \o critique_text \o "\n\n" \o draft

CoreClasses == {PlannerAgent, CriticAgent, SynthesizerAgent}

\* Classes registered under the core names whose run raises; the last one
\* raises only once the critique text is in the context.
FailingPlanner == [PlannerAgent EXCEPT !.cname = "FailingPlanner", !.fails = TRUE]

FailingCritic == [CriticAgent EXCEPT !.cname = "FailingCritic", !.fails = TRUE]

FailingSynthesizer ==
    [SynthesizerAgent EXCEPT !.cname = "FailingSynthesizer", !.fails = TRUE]

FinalFailingSynthesizer ==
    [SynthesizerAgent EXCEPT !.cname = "FinalFailingSynthesizer", !.fails = TRUE]

\* Whether cls().run(task, memory, context) raises.
RunFails(cls, ctx) ==
    /\ cls.fails
    /\ cls.cname = "FinalFailingSynthesizer" => "critique_text" \in DOMAIN ctx

RECURSIVE RegisterAll(_, _)
RegisterAll(reg, classes) ==
    IF classes = {} THEN reg
    ELSE LET c == CHOOSE x \in classes : TRUE
         IN  RegisterAll(register_agent(reg, c).registry, classes \ {c})

\* The registries with the three core agents and, for each worker name, no
\* class or one of its classes.
Registries ==
    {RegisterAll(<<>>, CoreClasses \cup a \cup w \cup c) :
        a \in {{}, {Analyst}, {IdleAnalyst}},
        w \in {{}, {Writer}, {BrokenWriter}},
        c \in {{}, {Coder}, {BrokenCoder}}}

StatsSnapshots ==
    {[n \in {m \in {"analyst", "writer"} : cnt[m] > 0} |-> cnt[n]] :
        cnt \in [{"analyst", "writer"} -> 0..MaxCount]}

PrefsSnapshots ==
    {<<>>, "writer" :> <<"other", "code">>, "analyst" :> <<"docs", "other">>}

WorldInit(regs, stats, prefs) ==
    /\ REGISTRY \in regs
    /\ regLast = NoOp
    /\ firstReg = REGISTRY
    /\ nInst = 0
    /\ statsDb \in stats
    /\ prefsDb \in prefs

(***************************************************************************)
(* Router harness: one call of rank_agents or pick_top.                    *)
(***************************************************************************)

MaxK == 2

RouterTasks == {"Tell me a story", "Fix the error in my code"}

InitRouter ==
    /\ WorldInit(Registries, StatsSnapshots, PrefsSnapshots)
    /\ rArgs \in [task : RouterTasks, k : (0 - MaxK)..MaxK,
                  exclude : {{}, {"writer"}}]
    /\ rOut = NoOp
    /\ ClassifyIdle
    /\ SupervisorIdle

Rank ==
    /\ rOut = NoOp
    /\ rOut' = [op |-> "rank_agents",
                value |-> rank_agents(rArgs.task, <<>>, rArgs.exclude,
                                      REGISTRY, statsDb, prefsDb)]
    /\ UNCHANGED <<rArgs, classVars, regVars, envVars, supVars>>

PickTop ==
    /\ rOut = NoOp
    /\ rOut' = [op |-> "pick_top",
                value |-> pick_top(rArgs.task, rArgs.k, <<>>, rArgs.exclude,
                                   REGISTRY, statsDb, prefsDb)]
    /\ UNCHANGED <<rArgs, classVars, regVars, envVars, supVars>>

NextRouter == Rank \/ PickTop

SpecRouter == InitRouter /\ [][NextRouter]_vars

(***************************************************************************)
(* agents/supervisor.py                                                    *)
(***************************************************************************)

TEAM_PROFILES ==
    ("docs" :> <<"docs", "writer", "analyst">>)
      @@ ("explain" :> <<"explainer", "analyst">>)
      @@ ("planning" :> <<"analyst", "explainer">>)
      @@ ("code" :> <<"coder", "analyst">>)

\* The allow-list widened by "other".
CRITIC_TASK_TYPES_all ==
    {"plan", "explain", "docs", "code", "db_analysis", "meta", "other"}

CRITIC_TASK_TYPES == {"plan", "explain", "docs", "code", "db_analysis", "meta"}

\* The code_markers list of infer_team_profile and of _pick_solver.
solver_code_markers ==
    {"traceback", "exception", "error", "bug", "fix", "refactor", "python",
     "javascript", "typescript", "sql", "api"}

infer_team_profile(tsk) ==
    LET t == Lower(tsk)
    IN  IF AnyIn({"readme", "documentation", "docs", "guide", "installation"}, t)
            THEN "docs"
        ELSE IF AnyIn(solver_code_markers, t) THEN "code"
        ELSE IF AnyIn({"explain", "difference", "compare", "why", "how", "vs",
                       "versus", "summary", "summarize", "overview",
                       "roles of"}, t)
            THEN "explain"
        ELSE IF AnyIn({"plan", "planning", "strategy", "roadmap", "outline"}, t)
            THEN "planning"
        ELSE "general"

DefaultSolverExclude == {"planner", "critic", "synthesizer"}

\* Supervisor.__init__ with keyword arguments a; solver_exclude {} is None.
SupervisorInit(a) ==
    [planner_name |-> "planner",
     critic_name |-> "critic",
     solver_name |-> "analyst",
     synthesizer_name |-> "synthesizer",
     auto_solver |-> a.auto_solver,
     auto_team |-> a.auto_team,
     team_size |-> IF a.team_size > 1 THEN a.team_size ELSE 1,
     use_team_profiles |-> a.use_team_profiles,
     solver_exclude |-> IF a.solver_exclude = {} THEN DefaultSolverExclude
                        ELSE a.solver_exclude]

\* The first name of a ranking that is not excluded and has a positive
\* score; None when there is none.
FirstEligible(ranked, exclude) ==
    LET ok == SelectSeq(ranked, LAMBDA e : e[1] \notin exclude /\ e[2] > 0)
    IN  IF Len(ok) = 0 THEN None ELSE ok[1][1]

\* The mutant has no fallback to solver_name after the ranking.
pick_solver_no_fallback(self, tsk, ctx, reg, stats, agent_prefs) ==
    IF ~self.auto_solver THEN [name |-> self.solver_name, ranked |-> FALSE]
    ELSE IF /\ AnyIn(solver_code_markers, Lower(tsk))
            /\ "coder" \in SeqToSet(list_agents(reg))
            /\ "coder" \notin self.solver_exclude
        THEN [name |-> "coder", ranked |-> FALSE]
    ELSE LET ranked == rank_agents(tsk, ctx, {}, reg, stats, agent_prefs)
         IN  [name |-> FirstEligible(ranked, self.solver_exclude),
              ranked |-> TRUE]

\* The mutant selects automatically whatever auto_solver says.
pick_solver_always_auto(self, tsk, ctx, reg, stats, agent_prefs) ==
    IF /\ AnyIn(solver_code_markers, Lower(tsk))
       /\ "coder" \in SeqToSet(list_agents(reg))
       /\ "coder" \notin self.solver_exclude
        THEN [name |-> "coder", ranked |-> FALSE]
    ELSE LET ranked == rank_agents(tsk, ctx, {}, reg, stats, agent_prefs)
             first == FirstEligible(ranked, self.solver_exclude)
         IN  [name |-> IF first = None THEN self.solver_name ELSE first,
              ranked |-> TRUE]

\* Supervisor._pick_solver: the name returned and whether rank_agents ran.
pick_solver(self, tsk, ctx, reg, stats, agent_prefs) ==
    IF ~self.auto_solver THEN [name |-> self.solver_name, ranked |-> FALSE]
    ELSE IF /\ AnyIn(solver_code_markers, Lower(tsk))
            /\ "coder" \in SeqToSet(list_agents(reg))
            /\ "coder" \notin self.solver_exclude
        THEN [name |-> "coder", ranked |-> FALSE]
    ELSE LET ranked == rank_agents(tsk, ctx, {}, reg, stats, agent_prefs)
             first == FirstEligible(ranked, self.solver_exclude)
         IN  [name |-> IF first = None THEN self.solver_name ELSE first,
              ranked |-> TRUE]

\* Supervisor._seed_team_by_profile
RECURSIVE SeedFrom(_, _, _, _)
SeedFrom(preferred, exclude, available, team) ==
    IF Len(preferred) = 0 THEN team
    ELSE LET name == preferred[1]
         IN  IF name \in exclude \/ name \notin available
                  \/ name \in SeqToSet(team)
                 THEN SeedFrom(Tail(preferred), exclude, available, team)
             ELSE SeedFrom(Tail(preferred), exclude, available,
                           Append(team, name))

seed_team_by_profile(self, profile, reg) ==
    SeedFrom(Get(TEAM_PROFILES, profile, <<>>), self.solver_exclude,
             SeqToSet(list_agents(reg)), <<>>)

\* The mutant fills the team without looking at the scores.
RECURSIVE FillTeamAnyScore(_, _, _, _)
FillTeamAnyScore(ranked, exclude, team, team_size) ==
    IF Len(ranked) = 0 THEN team
    ELSE LET name == ranked[1][1]
         IN  IF name \in exclude \/ name \in SeqToSet(team)
                 THEN FillTeamAnyScore(Tail(ranked), exclude, team, team_size)
             ELSE IF Len(team) + 1 >= team_size THEN Append(team, name)
             ELSE FillTeamAnyScore(Tail(ranked), exclude, Append(team, name),
                                   team_size)

\* The fill loop of _pick_team over the ranking.
RECURSIVE FillTeam(_, _, _, _)
FillTeam(ranked, exclude, team, team_size) ==
    IF Len(ranked) = 0 THEN team
    ELSE LET name == ranked[1][1]
             score == ranked[1][2]
         IN  IF name \in exclude \/ name \in SeqToSet(team) \/ score <= 0
                 THEN FillTeam(Tail(ranked), exclude, team, team_size)
             ELSE IF Len(team) + 1 >= team_size THEN Append(team, name)
             ELSE FillTeam(Tail(ranked), exclude, Append(team, name), team_size)

\* The mutant returns the whole team list instead of team[:team_size].
pick_team_unsliced(self, tsk, ctx, reg, stats, agent_prefs) ==
    LET profile == IF self.use_team_profiles THEN infer_team_profile(tsk)
                   ELSE "general"
        seeded == IF profile # "general"
                  THEN seed_team_by_profile(self, profile, reg) ELSE <<>>
        short == Len(seeded) < self.team_size
        filled == IF short
                  THEN FillTeam(rank_agents(tsk, ctx, {}, reg, stats, agent_prefs),
                                self.solver_exclude, seeded, self.team_size)
                  ELSE seeded
        team == IF Len(filled) = 0 THEN <<self.solver_name>> ELSE filled
    IN  [team |-> team, profile |-> profile, ranked |-> short,
         seeded |-> seeded]

\* Supervisor._pick_team: the team, the profile and whether rank_agents ran.
pick_team(self, tsk, ctx, reg, stats, agent_prefs) ==
    LET profile == IF self.use_team_profiles THEN infer_team_profile(tsk)
                   ELSE "general"
        seeded == IF profile # "general"
                  THEN seed_team_by_profile(self, profile, reg) ELSE <<>>
        short == Len(seeded) < self.team_size
        filled == IF short
                  THEN FillTeam(rank_agents(tsk, ctx, {}, reg, stats, agent_prefs),
                                self.solver_exclude, seeded, self.team_size)
                  ELSE seeded
        team == IF Len(filled) = 0 THEN <<self.solver_name>> ELSE filled
    IN  [team |-> SliceTo(team, self.team_size), profile |-> profile,
         ranked |-> short, seeded |-> seeded]

\* agent.run(task, memory, context) of a solver worker: its output, or raised.
WorkerRun(cls, tsk, mem, ctx) == [raised |-> cls.fails, output |-> cls.reply]

\* "\n".join(f"- {n}" for n in notes)
CritiqueText(notes) == Join("\n", [i \in 1..Len(notes) |-> "- " \o notes[i]])

AutoSkipText(task_type) ==
    "- Auto-skip Critic for non-critical task_type='" \o task_type \o "'."

\* The raw team draft: "\n\n".join(f"## {name} draft\n{out}" ...).strip()
TeamDraft(team_outputs) ==
    Strip(Join("\n\n", [i \in 1..Len(team_outputs) |->
        "## " \o team_outputs[i][1] \o " draft\n" \o team_outputs[i][2]]))

\* The context of the previous call kept instead of a new dict.
KeptContext == context

\* context = {} at the start of a run.
FreshContext == <<>>

\* d[key] = value
Put(d, key, value) == (key :> value) @@ d

Raise(error) ==
    /\ pc' = "raised"
    /\ loc' = Put(loc, "error", error)

(***************************************************************************)
(* Supervisor.run, stage by stage.  The constructed Supervisor, the task,  *)
(* the memory and the world are drawn in the initial state.                *)
(***************************************************************************)

MaxTeamSize == 2

\* A configured solver_exclude that also bars the default solver.
WideExclude == DefaultSolverExclude \cup {"analyst"}

\* Keyword arguments of Supervisor(...): single-solver configurations and
\* team configurations, with the default or the wider solver_exclude.
CtorArgs ==
    {[auto_solver |-> a, auto_team |-> FALSE, team_size |-> 2,
      use_team_profiles |-> TRUE, solver_exclude |-> x] :
        a \in BOOLEAN, x \in {{}, WideExclude}}
    \cup
    {[auto_solver |-> FALSE, auto_team |-> TRUE, team_size |-> n,
      use_team_profiles |-> p, solver_exclude |-> {}] :
        n \in (0 - 1)..MaxTeamSize, p \in BOOLEAN}
    \cup
    {[auto_solver |-> FALSE, auto_team |-> TRUE, team_size |-> MaxTeamSize,
      use_team_profiles |-> p, solver_exclude |-> WideExclude] :
        p \in BOOLEAN}

SupTasks ==
    {"Tell me a story", "Write a README installation section",
     "Fix the error in my code", "Explain the plan", "Explain the error"}

SupRegistries ==
    {RegisterAll(<<>>, CoreClasses \cup a \cup w \cup c) :
        a \in {{}, {Analyst}},
        w \in {{}, {Writer}, {BrokenWriter}},
        c \in {{}, {Coder}, {BrokenCoder}}}
    \cup
    {RegisterAll(<<>>, core \cup {Analyst, Writer, Coder}) :
        core \in {{FailingPlanner, CriticAgent, SynthesizerAgent},
                  {PlannerAgent, FailingCritic, SynthesizerAgent},
                  {PlannerAgent, CriticAgent, FailingSynthesizer},
                  {PlannerAgent, CriticAgent, FinalFailingSynthesizer}}}
    \cup
    {RegisterAll(<<>>, CoreClasses \cup {RevisingAnalyst} \cup w) :
        w \in {{}, {Writer, Coder}}}

SupStats == {<<>>, ("writer" :> MaxCount) @@ ("analyst" :> 1)}

SupPrefs == {<<>>, "writer" :> <<"other", "code">>}

InitSupervisor ==
    /\ WorldInit(SupRegistries, SupStats, SupPrefs)
    /\ ctor \in CtorArgs
    /\ sup = SupervisorInit(ctor)
    /\ pc = "ready"
    /\ task \in SupTasks
    /\ memory = [flags |-> <<>>]
    /\ context = <<>>
    /\ loc = <<>>
    /\ calls = <<>>
    /\ result = NoOp
    /\ prev = NoOp
    /\ ClassifyIdle
    /\ RouterIdle

\* The mutant notes the task in the caller's memory at every step.
FrameNotingTask ==
    /\ memory' = Put(memory, "last_task", task)
    /\ UNCHANGED <<classVars, regVars, envVars, routerVars, ctor, sup, task, prev>>

Frame == UNCHANGED <<classVars, regVars, envVars, routerVars, ctor, sup, task,
                     memory, prev>>

\* Lines 221-234: classify, create the context, construct planner and critic.
RunBegin ==
    LET task_type == infer_task_type(task)
        planner == get_agent_class(REGISTRY, sup.planner_name)
        critic == get_agent_class(REGISTRY, sup.critic_name)
    IN  /\ pc = "ready"
        /\ context' = Put(FreshContext, "task_type", task_type)
        /\ calls' = <<>>
        /\ result' = NoOp
        /\ IF planner.raised # "" THEN
               /\ pc' = "raised"
               /\ loc' = "error" :> planner.message
           ELSE IF critic.raised # "" THEN
               /\ pc' = "raised"
               /\ loc' = "error" :> critic.message
           ELSE
               /\ pc' = "planning"
               /\ loc' = [task_type |-> task_type,
                          need_critic |-> task_type \in CRITIC_TASK_TYPES,
                          planner |-> planner.cls, critic |-> critic.cls]
        /\ Frame

\* The mutant goes on to the solving stage without running the planner.
PlanSkipped ==
    /\ pc = "planning"
    /\ calls' = calls
    /\ context' = Put(context, "plan", <<>>)
    /\ loc' = Put(loc, "plan", <<>>)
    /\ pc' = "solving"
    /\ result' = result
    /\ Frame

\* Lines 237-239: run the planner and store the plan.
Plan ==
    /\ pc = "planning"
    /\ calls' = Append(calls, "planner.run")
    /\ IF RunFails(loc.planner, context) THEN
           /\ Raise("planner.run failed")
           /\ context' = context
       ELSE
           /\ context' = Put(context, "plan", PlannerPlan)
           /\ loc' = Put(loc, "plan", PlannerPlan)
           /\ pc' = "solving"
    /\ result' = result
    /\ Frame

\* Lines 304-310: pick the solver, construct it, run it, store the draft.
SolveSingle ==
    LET picked == pick_solver(sup, task, context, REGISTRY, statsDb, prefsDb)
        got == get_agent_class(REGISTRY, picked.name)
        ran == WorkerRun(got.cls, task, memory, context)
        ranking == IF picked.ranked THEN <<"rank_agents">> ELSE <<>>
    IN  /\ pc = "solving"
        /\ ~sup.auto_team
        /\ result' = result
        /\ IF got.raised # "" THEN
               /\ Raise(got.message)
               /\ calls' = calls \o ranking
               /\ context' = context
           ELSE IF ran.raised THEN
               /\ Raise(picked.name \o ".run failed")
               /\ calls' = calls \o ranking \o <<picked.name \o ".run">>
               /\ context' = context
           ELSE
               /\ pc' = "critique"
               /\ calls' = calls \o ranking \o <<picked.name \o ".run">>
               /\ context' = Put(context, "draft", ran.output)
               /\ loc' = Put(Put(Put(loc, "solver_name", picked.name),
                                 "solver", got.cls), "draft", ran.output)
        /\ Frame

\* Lines 243-244: pick the team.
PickTeam ==
    LET picked == pick_team(sup, task, context, REGISTRY, statsDb, prefsDb)
    IN  /\ pc = "solving"
        /\ sup.auto_team
        /\ pc' = "team"
        /\ calls' = calls \o (IF picked.ranked THEN <<"rank_agents">> ELSE <<>>)
        /\ loc' = Put(Put(Put(Put(loc, "team_names", picked.team),
                              "profile", picked.profile),
                          "seeded", picked.seeded), "team_outputs", <<>>)
        /\ UNCHANGED <<context, result>>
        /\ Frame

\* The mutant catches a member's failure and goes on with an empty output.
TeamMemberSuppressing ==
    LET name == loc.team_names[Len(loc.team_outputs) + 1]
        got == get_agent_class(REGISTRY, name)
        ran == WorkerRun(got.cls, task, memory, context)
    IN  /\ pc = "team"
        /\ Len(loc.team_outputs) < Len(loc.team_names)
        /\ UNCHANGED <<context, result>>
        /\ IF got.raised # "" THEN
               /\ Raise(got.message)
               /\ calls' = calls
           ELSE
               /\ pc' = "team"
               /\ calls' = Append(calls, name \o ".run")
               /\ loc' = Put(loc, "team_outputs",
                             Append(loc.team_outputs,
                                    <<name, IF ran.raised THEN ""
                                            ELSE ran.output>>))
        /\ Frame

\* Lines 246-250: one pass of the loop over the team members.
TeamMember ==
    LET name == loc.team_names[Len(loc.team_outputs) + 1]
        got == get_agent_class(REGISTRY, name)
        ran == WorkerRun(got.cls, task, memory, context)
    IN  /\ pc = "team"
        /\ Len(loc.team_outputs) < Len(loc.team_names)
        /\ UNCHANGED <<context, result>>
        /\ IF got.raised # "" THEN
               /\ Raise(got.message)
               /\ calls' = calls
           ELSE IF ran.raised THEN
               /\ Raise(name \o ".run failed")
               /\ calls' = Append(calls, name \o ".run")
           ELSE
               /\ pc' = "team"
               /\ calls' = Append(calls, name \o ".run")
               /\ loc' = Put(loc, "team_outputs",
                             Append(loc.team_outputs, <<name, ran.output>>))
        /\ Frame

\* The mutant hands the raw team draft, not the first synthesis, on as the
\* draft.
PrelimRawDraft ==
    LET ctx1 == Put(context, "team_outputs", loc.team_outputs)
        got == get_agent_class(REGISTRY, sup.synthesizer_name)
        prelim == SynthesizerRun(task, memory, ctx1)
    IN  /\ pc = "team"
        /\ Len(loc.team_outputs) = Len(loc.team_names)
        /\ result' = result
        /\ IF got.raised # "" THEN
               /\ Raise(got.message)
               /\ calls' = calls
               /\ context' = ctx1
           ELSE IF RunFails(got.cls, ctx1) THEN
               /\ Raise("synthesizer.run failed")
               /\ calls' = Append(calls, "synthesizer.run")
               /\ context' = ctx1
           ELSE
               /\ pc' = "critique"
               /\ calls' = Append(calls, "synthesizer.run")
               /\ context' = Put(ctx1, "draft", TeamDraft(loc.team_outputs))
               /\ loc' = Put(Put(loc, "team_draft", TeamDraft(loc.team_outputs)),
                             "draft", TeamDraft(loc.team_outputs))
        /\ Frame

\* Lines 252-265: store the team outputs, run the preliminary synthesis and
\* store it as the draft.
Prelim ==
    LET ctx1 == Put(context, "team_outputs", loc.team_outputs)
        got == get_agent_class(REGISTRY, sup.synthesizer_name)
        prelim == SynthesizerRun(task, memory, ctx1)
    IN  /\ pc = "team"
        /\ Len(loc.team_outputs) = Len(loc.team_names)
        /\ result' = result
        /\ IF got.raised # "" THEN
               /\ Raise(got.message)
               /\ calls' = calls
               /\ context' = ctx1
           ELSE IF RunFails(got.cls, ctx1) THEN
               /\ Raise("synthesizer.run failed")
               /\ calls' = Append(calls, "synthesizer.run")
               /\ context' = ctx1
           ELSE
               /\ pc' = "critique"
               /\ calls' = Append(calls, "synthesizer.run")
               /\ context' = Put(ctx1, "draft", prelim)
               /\ loc' = Put(Put(loc, "team_draft", TeamDraft(loc.team_outputs)),
                             "draft", prelim)
        /\ Frame

\* The mutant takes the draft out of the context when it stores the critique
\* text.
CritiqueDroppingDraft ==
    LET out == CriticRun(task, memory, context)
        text == IF loc.need_critic THEN CritiqueText(out.notes)
                ELSE AutoSkipText(loc.task_type)
    IN  /\ pc = "critique"
        /\ calls' = IF loc.need_critic THEN Append(calls, "critic.run") ELSE calls
        /\ IF loc.need_critic /\ RunFails(loc.critic, context) THEN
               /\ Raise("critic.run failed")
               /\ context' = context
           ELSE
               /\ pc' = "finalize"
               /\ loc' = Put(Put(loc, "critique_text", text),
                             "tags", IF loc.need_critic THEN out.tags ELSE <<>>)
               /\ context' = IF sup.auto_team
                             THEN Put([k \in DOMAIN context \ {"draft"} |->
                                         context[k]],
                                      "critique_text", text)
                             ELSE context
        /\ result' = result
        /\ Frame

\* Lines 268-282 and 313-325: the critic's pass, or the auto-skip text.  Only
\* the team branch stores critique_text in the context.
Critique ==
    LET out == CriticRun(task, memory, context)
        text == IF loc.need_critic THEN CritiqueText(out.notes)
                ELSE AutoSkipText(loc.task_type)
    IN  /\ pc = "critique"
        /\ calls' = IF loc.need_critic THEN Append(calls, "critic.run") ELSE calls
        /\ IF loc.need_critic /\ RunFails(loc.critic, context) THEN
               /\ Raise("critic.run failed")
               /\ context' = context
           ELSE
               /\ pc' = "finalize"
               /\ loc' = Put(Put(loc, "critique_text", text),
                             "tags", IF loc.need_critic THEN out.tags ELSE <<>>)
               /\ context' = IF sup.auto_team
                             THEN Put(context, "critique_text", text)
                             ELSE context
        /\ result' = result
        /\ Frame

\* The mutant never looks for a revise method.
FinalizeSingleNoRevise ==
    /\ pc = "finalize"
    /\ ~sup.auto_team
    /\ pc' = "done"
    /\ result' = [task |-> task,
                  task_type |-> loc.task_type,
                  plan |-> loc.plan,
                  solver_agent |-> loc.solver_name,
                  draft |-> loc.draft,
                  critique |-> loc.critique_text,
                  critique_tags |-> loc.tags,
                  final |-> loc.draft \o "\n\n" \o loc.critique_text,
                  available_agents |-> list_agents(REGISTRY)]
    /\ loc' = Put(loc, "revise_calls", <<>>)
    /\ UNCHANGED <<context, calls>>
    /\ Frame

\* Lines 327-341: the final text is what the solver's revise method returns
\* for the draft and the critique text, or, without such a method, the draft,
\* a blank line and the critique text.  revise_calls lists the arguments of
\* the revise calls made.
FinalizeSingle ==
    LET revises == HasRevise(loc.solver)
    IN  /\ pc = "finalize"
        /\ ~sup.auto_team
        /\ pc' = "done"
        /\ result' = [task |-> task,
                      task_type |-> loc.task_type,
                      plan |-> loc.plan,
                      solver_agent |-> loc.solver_name,
                      draft |-> loc.draft,
                      critique |-> loc.critique_text,
                      critique_tags |-> loc.tags,
                      final |-> IF revises
                                THEN ReviseRun(loc.solver, loc.draft,
                                               loc.critique_text)
                                ELSE loc.draft \o "\n\n" \o loc.critique_text,
                      available_agents |-> list_agents(REGISTRY)]
        /\ loc' = Put(loc, "revise_calls",
                      IF revises THEN <<<<loc.draft, loc.critique_text>>>>
                      ELSE <<>>)
        /\ UNCHANGED <<context, calls>>
        /\ Frame

\* Lines 285-301: the final synthesis and the team result.
FinalizeTeam ==
    /\ pc = "finalize"
    /\ sup.auto_team
    /\ calls' = Append(calls, "synthesizer.run")
    /\ IF RunFails(REGISTRY[sup.synthesizer_name], context) THEN
           /\ Raise("synthesizer.run failed")
           /\ result' = result
       ELSE
           /\ pc' = "done"
           /\ loc' = loc
           /\ result' =
                [task |-> task,
                 task_type |-> loc.task_type,
                 plan |-> loc.plan,
                 team_agents |-> loc.team_names,
                 team_profile |-> loc.profile,
                 solver_agent |-> sup.synthesizer_name,
                 team_draft |-> loc.team_draft,
                 draft |-> loc.draft,
                 critique |-> loc.critique_text,
                 critique_tags |-> loc.tags,
                 final |-> SynthesizerRun(task, memory, context),
                 available_agents |-> list_agents(REGISTRY)]
    /\ context' = context
    /\ Frame

Next ==
    \/ RunBegin
    \/ Plan
    \/ SolveSingle
    \/ PickTeam
    \/ TeamMember
    \/ Prelim
    \/ Critique
    \/ FinalizeSingle
    \/ FinalizeTeam

Spec == InitSupervisor /\ [][Next]_vars

\* A second call of run on the same Supervisor with the same task and memory,
\* the world unchanged.  The locals of the first call are dead; the model
\* leaves them in place until RunBegin overwrites them.
Rerun ==
    /\ pc = "done"
    /\ prev = NoOp
    /\ prev' = result
    /\ pc' = "ready"
    /\ UNCHANGED <<classVars, regVars, envVars, routerVars, ctor, sup, task,
                   memory, context, loc, calls, result>>

NextTwice ==
    \/ RunBegin
    \/ Plan
    \/ SolveSingle
    \/ PickTeam
    \/ TeamMember
    \/ Prelim
    \/ Critique
    \/ FinalizeSingle
    \/ FinalizeTeam
    \/ Rerun

\* The two-run executions start from the configurations whose team_size
\* argument is already effective (neither raised to 1 nor equal to it).
InitTwice == InitSupervisor /\ ctor.team_size > 1

SpecTwice == InitTwice /\ [][NextTwice]_vars

(***************************************************************************)
(* The team members run in any order: each pass of the loop of lines       *)
(* 246-250 takes any member that has not run yet, as a pool of workers     *)
(* joined before line 252 would.                                           *)
(***************************************************************************)

\* The members of the team that have run.
MembersRun == {loc.team_outputs[i][1] : i \in 1..Len(loc.team_outputs)}

\* The mutant publishes each member's output in the context at once.
TeamMemberPublishing ==
    /\ pc = "team"
    /\ \E name \in SeqToSet(loc.team_names) \ MembersRun :
        LET got == get_agent_class(REGISTRY, name)
            ran == WorkerRun(got.cls, task, memory, context)
        IN  /\ result' = result
            /\ IF got.raised # "" THEN
                   /\ Raise(got.message)
                   /\ UNCHANGED <<calls, context>>
               ELSE IF ran.raised THEN
                   /\ Raise(name \o ".run failed")
                   /\ calls' = Append(calls, name \o ".run")
                   /\ context' = context
               ELSE
                   /\ pc' = "team"
                   /\ calls' = Append(calls, name \o ".run")
                   /\ loc' = Put(loc, "team_outputs",
                                 Append(loc.team_outputs, <<name, ran.output>>))
                   /\ context' = Put(context, "team_outputs", loc'.team_outputs)
            /\ Frame

TeamMemberAnyOrder ==
    /\ pc = "team"
    /\ \E name \in SeqToSet(loc.team_names) \ MembersRun :
        LET got == get_agent_class(REGISTRY, name)
            ran == WorkerRun(got.cls, task, memory, context)
        IN  /\ UNCHANGED <<context, result>>
            /\ IF got.raised # "" THEN
                   /\ Raise(got.message)
                   /\ calls' = calls
               ELSE IF ran.raised THEN
                   /\ Raise(name \o ".run failed")
                   /\ calls' = Append(calls, name \o ".run")
               ELSE
                   /\ pc' = "team"
                   /\ calls' = Append(calls, name \o ".run")
                   /\ loc' = Put(loc, "team_outputs",
                                 Append(loc.team_outputs, <<name, ran.output>>))
            /\ Frame

NextAnyOrder ==
    \/ RunBegin
    \/ Plan
    \/ PickTeam
    \/ TeamMemberAnyOrder
    \/ Prelim
    \/ Critique
    \/ FinalizeTeam

InitAnyOrder == InitSupervisor /\ ctor.auto_team /\ ctor.team_size > 1

SpecAnyOrder == InitAnyOrder /\ [][NextAnyOrder]_vars

(***************************************************************************)
(* Classifier harness: the argument is drawn from one- and two-word texts  *)
(* over ClassifyWords (and None and the empty text), then classified.      *)
(***************************************************************************)

ClassifyWords ==
    {"README", "guide", "Explain", "versus", "code", "Traceback", "dataset",
     "runs", "plan", "Roadmap", "metadata", "trainer", "hello", "story"}

ClassifyTexts ==
    {None, ""} \cup ClassifyWords
      \cup {a \o " the " \o b : a \in ClassifyWords, b \in ClassifyWords}

InitClassify ==
    /\ cTask \in ClassifyTexts
    /\ cType = "?"
    /\ RegistryIdle
    /\ EnvIdle
    /\ RouterIdle
    /\ SupervisorIdle

Classify ==
    /\ cType = "?"
    /\ cType' = classify_task_type(cTask)
    /\ UNCHANGED <<cTask, regVars, envVars, routerVars, supVars>>

NextClassify == Classify

SpecClassify == InitClassify /\ [][NextClassify]_vars

(***************************************************************************)
(* CriticAgent.run called on its own                                       *)
(***************************************************************************)

\* The values context["draft"] takes; "<absent>" stands for no such key.
CriticDrafts ==
    {"<absent>", None, "", " ", " \n\t ", "\r\n",
     "Short.",
     "Looks ok",
     "## Steps\n- Clone.\n- Install.\n- Run.",
     "A summary of the answer in one line",
     "Approach: identify the core request, then provide a concise answer."}

CriticContexts ==
    {IF d = "<absent>" THEN base ELSE Put(base, "draft", d) :
        base \in {<<>>, [task_type |-> "docs", plan |-> <<"Draft an answer">>]},
        d \in CriticDrafts}

InitCritic ==
    /\ ClassifyIdle
    /\ RegistryIdle
    /\ EnvIdle
    /\ RouterIdle
    /\ ctor = NoOp /\ sup = NoOp /\ loc = <<>> /\ calls = <<>>
    /\ result = NoOp /\ prev = NoOp
    /\ pc = "critic_ready"
    /\ task \in SupTasks
    /\ memory \in {<<>>, [flags |-> <<>>]}
    /\ context \in CriticContexts

\* critic.run(task, memory, context): it assigns to its own locals only.
CriticCall ==
    /\ pc = "critic_ready"
    /\ pc' = "critic_done"
    /\ calls' = <<"critic.run">>
    /\ result' = CriticRun(task, memory, context)
    /\ UNCHANGED <<classVars, regVars, envVars, routerVars, ctor, sup, task,
                   memory, context, loc, prev>>

NextCritic == CriticCall

SpecCritic == InitCritic /\ [][NextCritic]_vars

(***************************************************************************)
(* can_handle of DocsAgent and ExplainerAgent called on its own.  Scores   *)
(* are in hundredths; the markers that are not ASCII are left out, the     *)
(* tasks being ASCII texts.                                                *)
(***************************************************************************)

\* max(a, b)
Max2(a, b) == IF a >= b THEN a ELSE b

\* DocsAgent.can_handle(task, context).  The markers of its 1.10 branch are
\* all outside ASCII, so an ASCII task without a documentation marker gets
\* 0.20.
docs_can_handle(tsk, ctx) ==
    LET t == Lower(tsk)
        task_type == Get(ctx, "task_type", None)
        score == IF AnyIn({"readme", "documentation", "docs", "guide",
                           "install", "installation", "setup",
                           "usage", "how to run", "quick start"}, t)
                 THEN 130 ELSE 20
    IN  IF task_type = "docs" THEN Max2(score, 150)
        ELSE IF task_type = "explain" THEN Max2(score, 60)
        ELSE score

\* ExplainerAgent.can_handle(task, context)
explainer_can_handle(tsk, ctx) ==
    LET t == Lower(tsk)
        task_type == Get(ctx, "task_type", None)
        is_planning_vs_critique ==
            \/ Contains(t, "planning vs critique")
            \/ Contains(t, "planning") /\ Contains(t, "critique")
        is_roles_question ==
            /\ AnyIn({"roles of", "role"}, t)
            /\ AnyIn({"planner", "analyst", "critic"}, t)
        is_single_vs_team ==
            /\ AnyIn({"single-solver", "single solver"}, t)
            /\ AnyIn({"team-solver", "team solver", "team"}, t)
            /\ AnyIn({"vs", "versus", "difference", "compare"}, t)
        score ==
            IF is_planning_vs_critique \/ is_roles_question \/ is_single_vs_team
                THEN 130
            ELSE IF AnyIn({"explain", "difference", "compare", "why", "how",
                           "what is", "roles of", "versus", "vs"}, t)
                THEN 92
            ELSE IF AnyIn({"meaning", "concept", "overview", "summary",
                           "introduce"}, t)
                THEN 65
            ELSE 15
    IN  IF task_type = "explain" THEN Max2(score, 90)
        ELSE IF task_type = "plan" THEN Max2(score, 40)
        ELSE IF task_type = "docs" THEN Max2(score, 50)
        ELSE score

CanHandleTasks ==
    {"", "Tell me a story", "Write a README installation section",
     "Quick start guide", "Explain the plan", "Give me an overview",
     "Planning vs critique", "What is the role of the critic",
     "Compare single-solver and team-solver", "Fix the error in my code"}

\* The context argument: no task type yet, or the task type the Supervisor
\* stored.
CanHandleContexts ==
    {<<>>} \cup {[task_type |-> ty] :
                    ty \in {"docs", "explain", "code", "db_analysis", "plan",
                            "meta", "other"}}

InitCanHandle ==
    /\ ClassifyIdle
    /\ RegistryIdle
    /\ EnvIdle
    /\ RouterIdle
    /\ ctor = NoOp /\ sup = NoOp /\ loc = <<>> /\ calls = <<>>
    /\ result = NoOp /\ prev = NoOp
    /\ pc = "can_handle_ready"
    /\ task \in CanHandleTasks
    /\ memory = <<>>
    /\ context \in CanHandleContexts

DocsCanHandle ==
    /\ pc = "can_handle_ready"
    /\ pc' = "can_handle_done"
    /\ calls' = <<"docs.can_handle">>
    /\ result' = [agent |-> "docs", value |-> docs_can_handle(task, context)]
    /\ UNCHANGED <<classVars, regVars, envVars, routerVars, ctor, sup, task,
                   memory, context, loc, prev>>

ExplainerCanHandle ==
    /\ pc = "can_handle_ready"
    /\ pc' = "can_handle_done"
    /\ calls' = <<"explainer.can_handle">>
    /\ result' = [agent |-> "explainer",
                  value |-> explainer_can_handle(task, context)]
    /\ UNCHANGED <<classVars, regVars, envVars, routerVars, ctor, sup, task,
                   memory, context, loc, prev>>

NextCanHandle ==
    \/ DocsCanHandle
    \/ ExplainerCanHandle

SpecCanHandle == InitCanHandle /\ [][NextCanHandle]_vars

(***************************************************************************)
(* HeadAgent: the queue of rules waiting for confirmation, kept under the  *)
(* key pending_memory of the flags dict of the memory object.  The memory  *)
(* object has a flags attribute and no get_flag or set_flag method.  An    *)
(* operator that writes returns the memory after the call.                 *)
(***************************************************************************)

\* HeadAgent._set_pending_queue(memory, queue)
set_pending_queue(mem, queue) ==
    [mem EXCEPT !.flags = ("pending_memory" :> queue) @@ mem.flags]

\* HeadAgent._clear_flag(memory, name)
clear_flag(mem, name) ==
    [mem EXCEPT !.flags = [k \in DOMAIN mem.flags \ {name} |-> mem.flags[k]]]

\* HeadAgent._get_pending_queue(memory): the items with a kind and a text,
\* written back when the flag holds a list.
get_pending_queue(mem) ==
    IF "pending_memory" \in DOMAIN mem.flags THEN
        LET queue == SelectSeq(mem.flags.pending_memory,
                               LAMBDA item : item.kind # "" /\ item.text # "")
        IN  [queue |-> queue, memory |-> set_pending_queue(mem, queue)]
    ELSE [queue |-> <<>>, memory |-> mem]

\* The mutant appends without looking for the item in the queue.
enqueue_pending_always(mem, kind, text) ==
    LET got == get_pending_queue(mem)
        queue == Append(got.queue, [kind |-> kind, text |-> text])
    IN  [value |-> Len(queue), memory |-> set_pending_queue(got.memory, queue)]

\* HeadAgent._enqueue_pending(memory, kind, text)
enqueue_pending(mem, kind, text) ==
    LET got == get_pending_queue(mem)
        hits == {i \in 1..Len(got.queue) :
                    got.queue[i].kind = kind /\ got.queue[i].text = text}
    IN  IF hits # {} THEN
            [value |-> CHOOSE i \in hits : \A j \in hits : i <= j,
             memory |-> got.memory]
        ELSE
            LET queue == Append(got.queue, [kind |-> kind, text |-> text])
            IN  [value |-> Len(queue),
                 memory |-> set_pending_queue(got.memory, queue)]

\* HeadAgent._pop_pending(memory)
pop_pending(mem) ==
    LET got == get_pending_queue(mem)
    IN  IF got.queue = <<>> THEN [value |-> None, memory |-> got.memory]
        ELSE LET rest == Tail(got.queue)
             IN  [value |-> Head(got.queue),
                  memory |-> IF rest # <<>>
                             THEN set_pending_queue(got.memory, rest)
                             ELSE clear_flag(got.memory, "pending_memory")]

\* HeadAgent._peek_pending(memory)
peek_pending(mem) ==
    LET got == get_pending_queue(mem)
    IN  [value |-> IF got.queue = <<>> THEN None ELSE Head(got.queue),
         memory |-> got.memory]

\* HeadAgent._pending_count(memory)
pending_count(mem) ==
    LET got == get_pending_queue(mem)
    IN  [value |-> Len(got.queue), memory |-> got.memory]

QueueKinds == {"rule", "note"}

QueueTexts == {"always use tabs", "never push on friday"}

InitQueue ==
    /\ ClassifyIdle
    /\ RegistryIdle
    /\ EnvIdle
    /\ RouterIdle
    /\ ctor = NoOp /\ sup = NoOp /\ loc = <<>> /\ calls = <<>>
    /\ result = NoOp /\ prev = NoOp
    /\ pc = "queue"
    /\ task = None
    /\ context = <<>>
    /\ memory \in {[flags |-> <<>>], [flags |-> [auto |-> TRUE]]}

EnqueuePending ==
    /\ pc = "queue"
    /\ \E kind \in QueueKinds, text \in QueueTexts :
           LET out == enqueue_pending(memory, kind, text)
           IN  /\ memory' = out.memory
               /\ result' = [op |-> "enqueue", kind |-> kind, text |-> text,
                             value |-> out.value]
    /\ UNCHANGED <<classVars, regVars, envVars, routerVars, ctor, sup, pc,
                   task, context, loc, calls, prev>>

PopPending ==
    /\ pc = "queue"
    /\ LET out == pop_pending(memory)
       IN  /\ memory' = out.memory
           /\ result' = [op |-> "pop", value |-> out.value]
    /\ UNCHANGED <<classVars, regVars, envVars, routerVars, ctor, sup, pc,
                   task, context, loc, calls, prev>>

NextQueue ==
    \/ EnqueuePending
    \/ PopPending

SpecQueue == InitQueue /\ [][NextQueue]_vars

(***************************************************************************)
(* HeadAgent.handle, up to the point where it hands the text on to a tool, *)
(* the Supervisor or the language model.  The texts are ASCII, so the      *)
(* markers and answers that are not ASCII never match and are left out,    *)
(* and they hold no apostrophe-like character to normalise (lower_norm);    *)
(* the replies, which are fixed messages, are given by name.  loc.saved    *)
(* lists the notes _save_note has stored.                                  *)
(***************************************************************************)

\* s.lstrip(chars) and s.strip(chars) for a set of characters.
RECURSIVE SkipCharsUp(_, _, _)
SkipCharsUp(s, chars, i) ==
    IF i <= Len(s) /\ SubSeq(s, i, i) \in chars THEN SkipCharsUp(s, chars, i + 1)
    ELSE i

RECURSIVE SkipCharsDown(_, _, _)
SkipCharsDown(s, chars, i) ==
    IF i >= 1 /\ SubSeq(s, i, i) \in chars THEN SkipCharsDown(s, chars, i - 1)
    ELSE i

LStripChars(s, chars) == SubSeq(s, SkipCharsUp(s, chars, 1), Len(s))

StripChars(s, chars) ==
    SubSeq(s, SkipCharsUp(s, chars, 1), SkipCharsDown(s, chars, Len(s)))

AnswerPunctuation == {" ", ".", ",", "!", "?", ":", ";"}

\* HeadAgent._is_yes(text)
is_yes(text) ==
    StripChars(Lower(Strip(text)), AnswerPunctuation) \in {"yes", "ok"}

\* The mutant takes "cancel" alone for a refusal.
is_no_cancel_only(text) ==
    StripChars(Lower(Strip(text)), AnswerPunctuation) = "cancel"

\* HeadAgent._is_no(text)
is_no(text) ==
    StripChars(Lower(Strip(text)), AnswerPunctuation) \in {"no", "cancel"}

\* HeadAgent._should_prompt_rule(lower_norm)
should_prompt_rule(lower_norm) ==
    /\ ~StartsWith(lower_norm, "tool ")
    /\ ~Contains(lower_norm, "?")
    /\ StartsWith(Strip(lower_norm), "rule")

\* HeadAgent._normalize_note_text(text)
normalize_note_text(text) ==
    LET s0 == Strip(text)
        low == Lower(s0)
        s1 == IF StartsWith(low, "rule") \/ StartsWith(low, "note")
              THEN Strip(SubSeq(s0, 5, Len(s0))) ELSE s0
        s2 == Strip(LStripChars(s1, {":", "-", " "}))
        quoted == /\ Len(s2) >= 2
                  /\ \E q \in {"\"", "'"} :
                        /\ SubSeq(s2, 1, 1) = q
                        /\ SubSeq(s2, Len(s2), Len(s2)) = q
        s3 == IF quoted THEN Strip(SubSeq(s2, 2, Len(s2) - 1)) ELSE s2
    IN  CollapseSpaces(s3)

\* HeadAgent._parse_note_save_request(lower_norm)
parse_note_save_request(lower_norm) ==
    IF StartsWith(lower_norm, "rule:") THEN "rule"
    ELSE IF StartsWith(lower_norm, "note:") THEN "note"
    ELSE None

\* clean.split(":", 1)[1] if there is a colon, else ""
AfterColon(clean) ==
    LET at == {i \in 1..Len(clean) : SubSeq(clean, i, i) = ":"}
    IN  IF at = {} THEN ""
        ELSE SubSeq(clean, (CHOOSE i \in at : \A j \in at : i <= j) + 1, Len(clean))

\* What _save_note may come to: the note is stored, an equal note is there
\* already, there is no current project, or the store raises.
SaveOutcomes == {"saved", "duplicate", "no_project", "failed"}

\* The notes after _save_note(tag, note_text) with that outcome.
save_note(saved, tag, note_text, outcome) ==
    IF outcome = "saved" THEN Append(saved, [tag |-> tag, text |-> note_text])
    ELSE saved

MaxNotes == 2

HeadTexts ==
    {"yes", " Yes! ", "ok.", "no", "Cancel", "hello", "pending", "tool ls",
     "rule always use tabs", "Rule: never push on friday",
     "rule always use tabs?", "rule", "note: buy milk"}

\* Lines 982-1018: the answer to a waiting rule.
handle_pending(text, mem, saved, outcome) ==
    LET clean == Strip(text)
        lower == Lower(clean)
        lower_norm == lower
        note_text == normalize_note_text(clean)
    IN  IF is_yes(lower) THEN
            LET popped == pop_pending(mem)
                left == pending_count(popped.memory)
            IN  [branch |-> "confirm",
                 reply |-> IF outcome = "failed" THEN "save_failed"
                           ELSE IF left.value > 0 THEN "next_rule"
                           ELSE "saved",
                 memory |-> popped.memory,
                 saved |-> save_note(saved, popped.value.kind,
                                     popped.value.text, outcome)]
        ELSE IF is_no(lower) THEN
            LET popped == pop_pending(mem)
                left == pending_count(popped.memory)
            IN  [branch |-> "confirm",
                 reply |-> IF left.value > 0 THEN "next_rule" ELSE "not_saved",
                 memory |-> popped.memory,
                 saved |-> saved]
        ELSE IF should_prompt_rule(lower_norm) /\ note_text # "" THEN
            [branch |-> "confirm", reply |-> "queued",
             memory |-> enqueue_pending(mem, "rule", note_text).memory,
             saved |-> saved]
        ELSE
            [branch |-> "confirm", reply |-> "answer_yes_or_no",
             memory |-> mem, saved |-> saved]

\* Lines 1020-1049 and the dispatch after them: the list of waiting rules,
\* a note to save, a rule to ask about; everything else goes on to the tool
\* branch or to the Supervisor and the language model.
handle_rest(text, mem, saved, outcome, pending_view) ==
    LET clean == Strip(text)
        lower == Lower(clean)
        lower_norm == lower
        tag == parse_note_save_request(lower_norm)
        note_text == normalize_note_text(clean)
    IN  IF pending_view THEN
            [branch |-> "pending_view",
             reply |-> IF get_pending_queue(mem).queue = <<>>
                       THEN "nothing_pending" ELSE "pending_list",
             memory |-> get_pending_queue(mem).memory, saved |-> saved]
        ELSE IF tag # None THEN
            LET told == normalize_note_text(Strip(AfterColon(clean)))
            IN  IF told = "" THEN
                    [branch |-> "note_save", reply |-> "what_to_remember",
                     memory |-> mem, saved |-> saved]
                ELSE
                    [branch |-> "note_save", reply |-> outcome,
                     memory |-> mem,
                     saved |-> save_note(saved, tag, told, outcome)]
        ELSE IF should_prompt_rule(lower_norm) /\ note_text # "" THEN
            [branch |-> "rule_prompt", reply |-> "queued",
             memory |-> enqueue_pending(mem, "rule", note_text).memory,
             saved |-> saved]
        ELSE IF StartsWith(lower, "tool ") THEN
            [branch |-> "tool", reply |-> "tool", memory |-> mem, saved |-> saved]
        ELSE
            [branch |-> "route", reply |-> "route", memory |-> mem, saved |-> saved]

\* HeadAgent.handle(text, memory)
handle(text, mem, saved, outcome) ==
    LET lower_norm == Lower(Strip(text))
        pending_view == StartsWith(lower_norm, "pending")
        got == get_pending_queue(mem)
    IN  IF got.queue # <<>> /\ ~pending_view
        THEN handle_pending(text, got.memory, saved, outcome)
        ELSE handle_rest(text, got.memory, saved, outcome, pending_view)

InitHead ==
    /\ ClassifyIdle
    /\ RegistryIdle
    /\ EnvIdle
    /\ RouterIdle
    /\ ctor = NoOp /\ sup = NoOp /\ calls = <<>>
    /\ result = NoOp /\ prev = NoOp
    /\ pc = "head"
    /\ task = None
    /\ context = <<>>
    /\ loc = [saved |-> <<>>]
    /\ memory \in {[flags |-> <<>>], [flags |-> [auto |-> TRUE]]}

Handle ==
    /\ pc = "head"
    /\ \E text \in HeadTexts, outcome \in SaveOutcomes :
           LET out == handle(text, memory, loc.saved, outcome)
           IN  /\ Len(out.saved) <= MaxNotes
               /\ memory' = out.memory
               /\ loc' = [saved |-> out.saved]
               /\ result' = [op |-> "handle", text |-> text,
                             branch |-> out.branch, reply |-> out.reply]
    /\ UNCHANGED <<classVars, regVars, envVars, routerVars, ctor, sup, pc,
                   task, context, calls, prev>>

NextHead == Handle

SpecHead == InitHead /\ [][NextHead]_vars

(***************************************************************************)
(* Claims                                                                  *)
(***************************************************************************)

TaskTypes == {"docs", "explain", "code", "db_analysis", "plan", "meta", "other"}

\* The rule table of the classifier as the specification states it.
Precedence == <<"docs", "explain", "code", "db_analysis", "plan", "meta">>

MarkersOf(ty) ==
    CASE ty = "docs" -> docs_markers
      [] ty = "explain" -> explain_markers
      [] ty = "code" -> code_markers
      [] ty = "db_analysis" -> db_markers
      [] ty = "plan" -> plan_markers
      [] ty = "meta" -> meta_markers

MinOf(S) == CHOOSE x \in S : \A y \in S : x <= y

\* The first k entries of a ranking that have a positive score (none for
\* k <= 0), as names.
FirstPositive(ranked, k) ==
    LET pos == SelectSeq(ranked, LAMBDA e : e[2] > 0)
        n == IF k <= 0 THEN 0 ELSE IF k < Len(pos) THEN k ELSE Len(pos)
    IN  [i \in 1..n |-> pos[i][1]]

\* C1: for every completed Supervisor.run, single or team, the returned
\* solver_agent and every name of the returned team_agents lie outside the
\* Supervisor's solver_exclude set.
C1_ExclusionInvariant ==
    pc = "done" =>
        /\ result.solver_agent \notin sup.solver_exclude
        /\ sup.auto_team =>
               \A i \in 1..Len(result.team_agents) :
                   result.team_agents[i] \notin sup.solver_exclude

\* C2: in auto-solver mode a worker whose can_handle raises for every input
\* is never the chosen solver, unless it is the configured solver_name.
C2_BrokenNeverChosen ==
    (sup # NoOp /\ sup.auto_solver /\ ~sup.auto_team
        /\ "solver_name" \in DOMAIN loc) =>
        (REGISTRY[loc.solver_name].raises => loc.solver_name = sup.solver_name)

\* C3: in team mode the picked team, and the team_agents of the result, have
\* at least one member and at most max(1, team_size) members, team_size
\* being the constructor argument (0 and negative values included).
C3_TeamSizeBound ==
    LET effective == IF ctor.team_size > 1 THEN ctor.team_size ELSE 1
    IN  /\ "team_names" \in DOMAIN loc =>
               /\ Len(loc.team_names) >= 1
               /\ Len(loc.team_names) <= effective
        /\ (pc = "done" /\ sup.auto_team) =>
               /\ Len(result.team_agents) >= 1
               /\ Len(result.team_agents) <= effective

\* A completed team run built with team_size below 1 on a task of the code
\* profile, whose seed (coder, analyst) is longer than the effective size.
C3_Witness ==
    /\ pc = "done"
    /\ sup.auto_team
    /\ ctor.team_size < 1
    /\ result.team_profile = "code"
    /\ {"coder", "analyst"} \subseteq DOMAIN REGISTRY
    /\ result.team_agents = <<"coder">>

\* C4: in a run whose task_type is "other" the critic's run is never called,
\* and the completed run returns empty critique_tags and the auto-skip text
\* as critique; in a run whose task_type is on the allow-list the critic's
\* run is called exactly once by the time the run completes.  Both modes.
C4_CritiqueGating ==
    LET critic_runs == Len(SelectSeq(calls, LAMBDA c : c = "critic.run"))
    IN  pc \in {"planning", "solving", "team", "critique", "finalize", "done"} =>
            /\ loc.task_type = "other" => critic_runs = 0
            /\ (pc = "done" /\ result.task_type = "other") =>
                   /\ result.critique_tags = <<>>
                   /\ result.critique =
                        "- Auto-skip Critic for non-critical task_type='other'."
            /\ loc.task_type \in
                   {"plan", "explain", "docs", "code", "db_analysis", "meta"} =>
                   /\ critic_runs <= 1
                   /\ pc \in {"finalize", "done"} => critic_runs = 1

\* A completed team run whose task_type is "other": the synthesizer ran, the
\* critic did not.
C4_Witness ==
    /\ pc = "done"
    /\ sup.auto_team
    /\ result.task_type = "other"
    /\ result.critique_tags = <<>>
    /\ "critic.run" \notin SeqToSet(calls)
    /\ "synthesizer.run" \in SeqToSet(calls)

\* C5: for every integer k, pick_top(k) returns exactly the first k names of
\* rank_agents' output that have a positive score, in rank order: never more
\* than k names, and fewer only when fewer positive candidates exist.
C5_PickTopFirstK ==
    rOut.op = "pick_top" =>
        rOut.value = FirstPositive(
            rank_agents(rArgs.task, <<>>, rArgs.exclude, REGISTRY, statsDb,
                        prefsDb),
            rArgs.k)

\* C6: in every completed run, single or team, final differs from draft
\* only if the critic was run; when the critic is skipped, final = draft.
C6_FinalDiffersOnlyIfCritic ==
    pc = "done" =>
        (result.final # result.draft => "critic.run" \in SeqToSet(calls))

\* C7: with the registry, the statistics, the preferences and the workers
\* fixed, a second run with the same task and memory returns the result of
\* the first, field for field, in single and in team mode.
C7_Deterministic ==
    (pc = "done" /\ prev # NoOp) => result = prev

\* A second team run has completed; it ranked the agents and ran the critic.
C7_Witness ==
    /\ pc = "done"
    /\ prev # NoOp
    /\ sup.auto_team
    /\ "rank_agents" \in SeqToSet(calls)
    /\ "critic.run" \in SeqToSet(calls)
    /\ Len(result.team_agents) = 2

\* C11: rank_agents returns exactly one (name, score) entry for each
\* registered worker outside its exclusion set (DEFAULT_EXCLUDE and the
\* exclude argument), by non-increasing score, entries of equal score in
\* ascending order of name.
C11_RankOrder ==
    rOut.op = "rank_agents" =>
        LET r == rOut.value
            expected == DOMAIN REGISTRY \ ({"planner", "critic"} \cup rArgs.exclude)
        IN  /\ {r[i][1] : i \in 1..Len(r)} = expected
            /\ Len(r) = Cardinality(expected)
            /\ \A i \in 1..(Len(r) - 1) :
                   \/ r[i][2] > r[i + 1][2]
                   \/ r[i][2] = r[i + 1][2] /\ StrLess(r[i][1], r[i + 1][1])

\* A ranking of four or more entries, two neighbours of equal positive score.
C11_Witness ==
    /\ rOut.op = "rank_agents"
    /\ Len(rOut.value) >= 4
    /\ \E i \in 1..(Len(rOut.value) - 1) :
           /\ rOut.value[i][2] = rOut.value[i + 1][2]
           /\ rOut.value[i][2] > 0

\* C12: called without an exclude argument, rank_agents and pick_top return
\* none of planner, critic, synthesizer among the candidates.
C12_DefaultExclusion ==
    (rOut.op \in {"rank_agents", "pick_top"} /\ rArgs.exclude = {}) =>
        LET names == IF rOut.op = "rank_agents"
                     THEN {rOut.value[i][1] : i \in 1..Len(rOut.value)}
                     ELSE SeqToSet(rOut.value)
        IN  names \cap {"planner", "critic", "synthesizer"} = {}

\* The usage bonus and the preference bonus of a worker, in score units.
UsageBonusOf(name) ==
    IF name \in DOMAIN statsDb /\ statsDb[name] > 0
    THEN CHOOSE b \in 0..(20 * CountLcm) :
             b * MaxOf({statsDb[n] : n \in DOMAIN statsDb})
                 = 20 * CountLcm * statsDb[name]
    ELSE 0

PrefBonusOf(name) ==
    IF /\ name \in DOMAIN prefsDb
       /\ classify_task_type(rArgs.task) \in SeqToSet(prefsDb[name])
    THEN 30 * CountLcm ELSE 0

\* C13: when a worker's can_handle raises, rank_agents still returns an
\* entry for every registered, non-excluded worker, and the raising worker's
\* score is its usage bonus plus its preference bonus (base score 0.0).
C13_FailOpenScoring ==
    rOut.op = "rank_agents" =>
        \A n \in DOMAIN REGISTRY \ ({"planner", "critic"} \cup rArgs.exclude) :
            \E i \in 1..Len(rOut.value) :
                /\ rOut.value[i][1] = n
                /\ REGISTRY[n].raises =>
                       rOut.value[i][2] = UsageBonusOf(n) + PrefBonusOf(n)

\* A ranking with a raising worker that scores above 0 and a sound one.
C13_Witness ==
    /\ rOut.op = "rank_agents"
    /\ \E i, j \in 1..Len(rOut.value) :
           /\ REGISTRY[rOut.value[i][1]].raises
           /\ rOut.value[i][2] > 0
           /\ ~REGISTRY[rOut.value[j][1]].raises
           /\ rOut.value[j][2] > 0

\* C14: every ranked worker's score is base + usage bonus + preference
\* bonus, unclamped; the usage bonus is 0.2 * count / max_count when
\* max_count > 0 (within [0, 0.2], 0.2 for the holder of the maximum) and 0
\* otherwise; the preference bonus is 0.3 exactly when the classified
\* task_type is among the worker's preferred types.
C14_ScoreFormula ==
    rOut.op = "rank_agents" =>
        \A i \in 1..Len(rOut.value) :
            LET n == rOut.value[i][1]
                base == IF REGISTRY[n].raises THEN 0
                        ELSE REGISTRY[n].score * CountLcm
                counts == {statsDb[m] : m \in DOMAIN statsDb}
            IN  /\ rOut.value[i][2] = base + UsageBonusOf(n) + PrefBonusOf(n)
                /\ UsageBonusOf(n) >= 0
                /\ UsageBonusOf(n) <= 20 * CountLcm
                /\ (n \in DOMAIN statsDb /\ statsDb[n] = MaxOf(counts)) =>
                       UsageBonusOf(n) = 20 * CountLcm
                /\ n \notin DOMAIN statsDb => UsageBonusOf(n) = 0

\* A ranked worker whose score exceeds 1.0, with a usage bonus strictly
\* between 0 and 0.2.
C14_Witness ==
    /\ rOut.op = "rank_agents"
    /\ \E i \in 1..Len(rOut.value) :
           /\ rOut.value[i][2] > 100 * CountLcm
           /\ UsageBonusOf(rOut.value[i][1]) > 0
           /\ UsageBonusOf(rOut.value[i][1]) < 20 * CountLcm

\* The stages of Supervisor.run in their order.
StageRank(stage) ==
    CASE stage = "ready" -> 0
      [] stage = "planning" -> 1
      [] stage = "solving" -> 2
      [] stage = "team" -> 3
      [] stage = "critique" -> 4
      [] stage = "finalize" -> 5
      [] stage = "done" -> 6
      [] stage = "raised" -> 7
      [] OTHER -> 0 - 1

\* The worker runs of the call so far, in order (router calls left out).
WorkerRuns == SelectSeq(calls, LAMBDA c : c # "rank_agents")

IsPrefix(p, q) == Len(p) <= Len(q) /\ SubSeq(q, 1, Len(p)) = p

\* The worker runs a completed call consists of, once the solver or the team
\* is known: planner, solver or members and first synthesis, critic if
\* needed, final synthesis in team mode.
ExpectedRuns ==
    LET critic == IF loc.need_critic THEN <<"critic.run">> ELSE <<>>
    IN  IF "team_names" \in DOMAIN loc THEN
            <<"planner.run">>
              \o [i \in 1..Len(loc.team_names) |-> loc.team_names[i] \o ".run"]
              \o <<"synthesizer.run">> \o critic \o <<"synthesizer.run">>
        ELSE <<"planner.run", loc.solver_name \o ".run">> \o critic

\* C15: Supervisor.run moves through planning, solving (single or team),
\* critiquing, finalizing and done in that order, never back and never twice
\* into a stage, so that it ends, in done or by raising, after at most one
\* step per stage and per team member.  The planner runs once,
\* before any solver; each solver or team member runs once; the critic runs
\* at most once and after the draft exists; the final synthesis runs after
\* the critique text exists.
C15_StageOrder ==
    /\ [](pc \in {"planning", "solving", "team", "critique", "finalize",
                  "done", "raised"} =>
            /\ pc \in {"solving", "team", "critique", "finalize", "done"} =>
                   /\ Len(WorkerRuns) >= 1
                   /\ WorkerRuns[1] = "planner.run"
            /\ Len(SelectSeq(calls, LAMBDA c : c = "planner.run")) <= 1
            /\ Len(SelectSeq(calls, LAMBDA c : c = "critic.run")) <= 1
            /\ ("team_names" \in DOMAIN loc \/ "solver_name" \in DOMAIN loc) =>
                   IsPrefix(WorkerRuns, ExpectedRuns)
            /\ pc = "done" => WorkerRuns = ExpectedRuns
            /\ "critic.run" \in SeqToSet(calls) => "draft" \in DOMAIN context
            /\ pc = "finalize" => "critique_text" \in DOMAIN loc
            /\ pc = "critique" => "draft" \in DOMAIN loc)
    /\ [][\/ StageRank(pc') > StageRank(pc)
          \/ pc = "team" /\ pc' = "team"
                /\ Len(loc'.team_outputs) = Len(loc.team_outputs) + 1
                /\ Len(loc'.team_outputs) <= Len(loc.team_names)]_vars

\* A completed team run of two members with the critic.
C15_Witness ==
    /\ pc = "done"
    /\ sup.auto_team
    /\ Len(loc.team_names) = 2
    /\ calls[1] = "planner.run"
    /\ "critic.run" \in SeqToSet(calls)

\* Whether the i-th call of the run is a worker's run that raised.
CallFails(i) ==
    /\ calls[i] # "rank_agents"
    /\ LET cls == REGISTRY[SubSeq(calls[i], 1, Len(calls[i]) - 4)]
       IN  /\ cls.fails
           /\ cls.cname = "FinalFailingSynthesizer" =>
                  \E j \in 1..(i - 1) : calls[j] = "synthesizer.run"

NoCandidate ==
    LET ranked == rank_agents(task, <<>>, {}, REGISTRY, statsDb, prefsDb)
    IN  \A i \in 1..Len(ranked) :
            ranked[i][1] \in sup.solver_exclude \/ ranked[i][2] <= 0

\* The names the profile of the run's task seeds the team with.
SeedNames ==
    IF sup.use_team_profiles /\ infer_team_profile(task) \in DOMAIN TEAM_PROFILES
    THEN (SeqToSet(TEAM_PROFILES[infer_team_profile(task)])
             \cap DOMAIN REGISTRY) \ sup.solver_exclude
    ELSE {}

\* C17: when the ranking run calls has no non-excluded candidate of positive
\* score, the single auto-solver run takes solver_name and the team run with
\* no profile seed takes the team [solver_name]; a run that raises raises a
\* worker's failure or the registry's KeyError, never an empty-candidate
\* error.
C17_EmptyCandidateFallback ==
    (pc \in {"team", "critique", "finalize", "done", "raised"}
        /\ "rank_agents" \in SeqToSet(calls) /\ NoCandidate) =>
        /\ (~sup.auto_team /\ pc # "raised") =>
               loc.solver_name = sup.solver_name
        /\ (~sup.auto_team /\ pc = "raised" /\ Len(calls) = 2) =>
               StartsWith(loc.error, "Agent '" \o sup.solver_name \o "' not found")
        /\ (~sup.auto_team /\ pc = "raised" /\ Len(calls) = 3) =>
               loc.error = sup.solver_name \o ".run failed"
        /\ (sup.auto_team /\ SeedNames = {} /\ "team_names" \in DOMAIN loc) =>
               loc.team_names = <<sup.solver_name>>
        /\ pc = "raised" =>
               \/ StartsWith(loc.error, "Agent '")
               \/ \E i \in 1..Len(calls) : loc.error = calls[i] \o " failed"

\* A completed auto-solver run whose ranking had no eligible candidate.
C17_Witness ==
    /\ pc = "done"
    /\ sup.auto_solver
    /\ "rank_agents" \in SeqToSet(calls)
    /\ NoCandidate
    /\ result.solver_agent = "analyst"

\* C18: in single mode with auto_solver the chosen solver is the first entry
\* of rank_agents' output that is outside solver_exclude and scores above 0,
\* and solver_name when there is none; no other rule overrides the ranking.
C18_SolverIsFirstRanked ==
    (sup # NoOp /\ sup.auto_solver /\ ~sup.auto_team
        /\ "solver_name" \in DOMAIN loc) =>
        LET ranked == rank_agents(task, <<>>, {}, REGISTRY, statsDb, prefsDb)
            ok == SelectSeq(ranked, LAMBDA e : e[1] \notin sup.solver_exclude
                                                 /\ e[2] > 0)
        IN  loc.solver_name = IF Len(ok) > 0 THEN ok[1][1] ELSE sup.solver_name

\* C19: in team mode with team profiles the seeded members are the entry of
\* TEAM_PROFILES for the run's classified task_type, filtered to registered,
\* non-excluded names, in the table's order.
C19_SeedByTaskType ==
    (sup # NoOp /\ sup.auto_team /\ sup.use_team_profiles
        /\ "seeded" \in DOMAIN loc) =>
        loc.seeded =
            SelectSeq(IF loc.task_type \in DOMAIN TEAM_PROFILES
                      THEN TEAM_PROFILES[loc.task_type] ELSE <<>>,
                      LAMBDA n : n \in DOMAIN REGISTRY
                                   /\ n \notin sup.solver_exclude)

\* C20: a completed team run runs the synthesizer exactly twice: first
\* after all the members and before the critic, on a context without a
\* critique text; the critic, when run, reviews the output of that first
\* synthesis as the draft; the second run comes after the critique text is
\* in the context, and its output is the returned final.
C20_TwoSyntheses ==
    /\ (sup # NoOp /\ sup.auto_team /\ pc = "critique") =>
           /\ WorkerRuns[Len(WorkerRuns)] = "synthesizer.run"
           /\ Len(SelectSeq(calls, LAMBDA c : c = "synthesizer.run")) = 1
           /\ Len(WorkerRuns) = Len(loc.team_names) + 2
           /\ "critique_text" \notin DOMAIN context
           /\ context.draft = loc.draft
    /\ (sup # NoOp /\ sup.auto_team /\ pc = "done") =>
           LET before == [k \in DOMAIN context \ {"critique_text", "draft"} |->
                            context[k]]
           IN  /\ Len(SelectSeq(calls, LAMBDA c : c = "synthesizer.run")) = 2
               /\ calls[Len(calls)] = "synthesizer.run"
               /\ result.draft = SynthesizerRun(task, memory, before)
               /\ context.draft = result.draft
               /\ loc.need_critic =>
                      /\ calls[Len(calls) - 1] = "critic.run"
                      /\ result.critique =
                           CritiqueText(CriticRun(task, memory,
                                                  "draft" :> result.draft).notes)
               /\ context.critique_text = result.critique
               /\ result.final = SynthesizerRun(task, memory, context)

\* A completed team run of two members in which the critic reviewed the
\* first synthesis and the second synthesis differs from it.
C20_Witness ==
    /\ pc = "done"
    /\ sup.auto_team
    /\ Len(result.team_agents) = 2
    /\ loc.need_critic
    /\ calls[Len(calls) - 1] = "critic.run"
    /\ result.final # result.draft
    /\ result.draft # result.team_draft

\* C21: no step of Supervisor.run (its rank_agents calls included) changes
\* the caller's memory, the registry, the statistics store or the preference
\* store.
C21_ReadOnlyWorld ==
    [][/\ memory' = memory
       /\ REGISTRY' = REGISTRY
       /\ statsDb' = statsDb
       /\ prefsDb' = prefsDb]_vars

\* A completed run that ranked the workers against non-empty stores.
C21_Witness ==
    /\ pc = "done"
    /\ \E i \in 1..Len(calls) : calls[i] = "rank_agents"
    /\ statsDb # <<>>
    /\ prefsDb # <<>>
    /\ memory = [flags |-> <<>>]

\* C22: critic.run returns normally; on a missing, None, empty or
\* white-space draft its tags are exactly the missing-draft tag and it gives
\* exactly one note; on every draft it leaves context and memory as they
\* were.
C22_CriticOnEmptyDraft ==
    /\ [](pc = "critic_done" =>
            LET got == Get(context, "draft", "")
                draft == IF got = None THEN "" ELSE got
            IN  /\ DOMAIN result = {"notes", "tags"}
                /\ Len(result.notes) >= 1
                /\ Strip(draft) = "" =>
                       /\ result.tags = <<"missing_draft">>
                       /\ Len(result.notes) = 1
                /\ Strip(draft) # "" =>
                       \A i \in 1..Len(result.tags) : result.tags[i] # "missing_draft")
    /\ [][context' = context /\ memory' = memory]_vars

\* The critic has run on a draft of white space only.
C22_Witness ==
    /\ pc = "critic_done"
    /\ "draft" \in DOMAIN context
    /\ context.draft \notin {None, ""}
    /\ Strip(context.draft) = ""
    /\ result.tags = <<"missing_draft">>

\* The names of the run's ranking that the fill loop may take, in rank order.
FillCandidates ==
    LET ranked == rank_agents(task, <<>>, {}, REGISTRY, statsDb, prefsDb)
        kept == SelectSeq(ranked, LAMBDA e : /\ e[2] > 0
                                             /\ e[1] \notin sup.solver_exclude
                                             /\ e[1] \notin SeqToSet(loc.seeded))
    IN  [i \in 1..Len(kept) |-> kept[i][1]]

\* C23: the selected team has no name twice; it starts with the seeded names
\* in profile order and goes on with names of the ranking in rank order, each
\* of positive score and outside solver_exclude (or it is the one-member
\* fallback team); rank_agents is called only when fewer than team_size names
\* were seeded.
C23_TeamComposition ==
    (sup # NoOp /\ sup.auto_team /\ "team_names" \in DOMAIN loc) =>
        LET team == loc.team_names
            seeded == loc.seeded
            nSeed == IF Len(team) < Len(seeded) THEN Len(team) ELSE Len(seeded)
            rest == SubSeq(team, nSeed + 1, Len(team))
            preferred == IF loc.profile \in DOMAIN TEAM_PROFILES
                         THEN TEAM_PROFILES[loc.profile] ELSE <<>>
        IN  /\ \A i, j \in 1..Len(team) : i # j => team[i] # team[j]
            /\ seeded = SelectSeq(preferred,
                                  LAMBDA n : /\ n \in DOMAIN REGISTRY
                                             /\ n \notin sup.solver_exclude)
            /\ "rank_agents" \in SeqToSet(calls) => Len(seeded) < sup.team_size
            /\ \/ seeded = <<>> /\ team = <<sup.solver_name>>
                     /\ ("rank_agents" \in SeqToSet(calls) => FillCandidates = <<>>)
               \/ /\ SubSeq(team, 1, nSeed) = SubSeq(seeded, 1, nSeed)
                  /\ rest # <<>> => "rank_agents" \in SeqToSet(calls)
                  /\ Len(rest) <= Len(FillCandidates)
                  /\ rest = SubSeq(FillCandidates, 1, Len(rest))

\* A team of one seeded name followed by one name filled from a ranking that
\* also holds a candidate of score 0.
C23_Witness ==
    /\ pc = "done"
    /\ sup.auto_team
    /\ Len(loc.seeded) = 1
    /\ Len(loc.team_names) = 2
    /\ loc.team_names[1] = loc.seeded[1]
    /\ "rank_agents" \in SeqToSet(calls)
    /\ Len(FillCandidates) <
         Len(rank_agents(task, <<>>, {}, REGISTRY, statsDb, prefsDb)) - 1

\* C24: a completed single run whose solver has a revise method made one
\* revise call, on the draft and the critique text, and returns its value as
\* final; without the method no revise call was made and final is the draft,
\* a blank line and the critique text.  No revise call is made before the
\* critique step has set the critique text.
C24_ReviseOrConcatenate ==
    /\ "revise_calls" \in DOMAIN loc =>
           /\ pc = "done" /\ ~sup.auto_team
           /\ "critique_text" \in DOMAIN loc
    /\ (sup # NoOp /\ ~sup.auto_team /\ pc = "done") =>
           IF HasRevise(REGISTRY[result.solver_agent]) THEN
               /\ loc.revise_calls = <<<<result.draft, result.critique>>>>
               /\ result.final =
                    ReviseRun(REGISTRY[result.solver_agent], result.draft,
                              result.critique)
           ELSE
               /\ loc.revise_calls = <<>>
               /\ result.final = result.draft \o "\n\n" \o result.critique
               /\ StartsWith(result.final, result.draft)

\* A completed single run whose solver revised the draft after the critic
\* ran.
C24_Witness ==
    /\ pc = "done"
    /\ ~sup.auto_team
    /\ HasRevise(REGISTRY[result.solver_agent])
    /\ calls[Len(calls)] = "critic.run"
    /\ Len(loc.revise_calls) = 1
    /\ ~StartsWith(result.final, result.draft)

\* C25: a run starts from a context holding the task type only, whatever an
\* earlier run left; after that no step removes a key or changes the stored
\* task_type, and the task_type of the result is the stored one.
C25_ContextGrows ==
    /\ [][IF pc = "ready"
          THEN pc' # "ready" => context' = ("task_type" :> infer_task_type(task))
          ELSE /\ DOMAIN context \subseteq DOMAIN context'
               /\ "task_type" \in DOMAIN context =>
                      context'.task_type = context.task_type]_vars
    /\ [](pc = "done" =>
            /\ DOMAIN context \subseteq
                 {"task_type", "plan", "team_outputs", "draft", "critique_text"}
            /\ result.task_type = context.task_type)

\* A second team run has completed with all five keys in its context.
C25_Witness ==
    /\ pc = "done"
    /\ prev # NoOp
    /\ DOMAIN context =
         {"task_type", "plan", "team_outputs", "draft", "critique_text"}
    /\ result.task_type = "docs"

\* C26: while the members run, in whatever order, the context holds the
\* task type and the plan only; each collected output is what that member
\* returns on this context, so the outputs by name do not depend on the order.
C26_MembersIndependent ==
    (sup # NoOp /\ sup.auto_team /\ "team_outputs" \in DOMAIN loc) =>
        LET planned == [task_type |-> loc.task_type, plan |-> loc.plan]
            outs == loc.team_outputs
        IN  /\ pc = "team" => context = planned
            /\ \A i, j \in 1..Len(outs) : i # j => outs[i][1] # outs[j][1]
            /\ \A i \in 1..Len(outs) :
                   /\ outs[i][1] \in SeqToSet(loc.team_names)
                   /\ outs[i][2] =
                        WorkerRun(REGISTRY[outs[i][1]], task, memory, planned).output
            /\ pc \in {"critique", "finalize", "done"} =>
                   MembersRun = SeqToSet(loc.team_names)

\* Both members of a team have run, the second of the list first.
C26_Witness ==
    /\ pc = "critique"
    /\ Len(loc.team_names) = 2
    /\ Len(loc.team_outputs) = 2
    /\ loc.team_outputs[1][1] = loc.team_names[2]
    /\ loc.team_outputs[1][2] # loc.team_outputs[2][2]

\* C27: with auto_team and auto_solver both off, the run makes no
\* rank_agents call and runs solver_name, which the result names as
\* solver_agent; a run is a team run exactly when auto_team was given at
\* construction.
C27_FixedSolver ==
    sup # NoOp =>
        /\ sup.auto_team = ctor.auto_team
        /\ (~sup.auto_team /\ ~sup.auto_solver) =>
               /\ "rank_agents" \notin SeqToSet(calls)
               /\ \A i \in 2..Len(calls) :
                      calls[i] \in {sup.solver_name \o ".run", "critic.run"}
               /\ pc = "done" => result.solver_agent = sup.solver_name
        /\ pc = "done" =>
               /\ "team_agents" \in DOMAIN result <=> ctor.auto_team
               /\ "synthesizer.run" \in SeqToSet(calls) <=> ctor.auto_team

\* A completed run with both flags off on a code task, coder registered, that
\* was solved by the configured analyst.
C27_Witness ==
    /\ pc = "done"
    /\ ~sup.auto_team /\ ~sup.auto_solver
    /\ task = "Fix the error in my code"
    /\ "coder" \in DOMAIN REGISTRY
    /\ result.solver_agent = "analyst"
    /\ calls[2] = "analyst.run"

\* C28: can_handle of a registered worker returns a value from 0.0 to 1.0
\* (0 to 100 hundredths) for every task and every context.
C28_ScoreInUnitRange ==
    pc = "can_handle_done" => (result.value >= 0 /\ result.value <= 100)

\* The list stored under pending_memory, empty when the flag is not set.
PendingQueue ==
    IF "pending_memory" \in DOMAIN memory.flags
    THEN memory.flags.pending_memory ELSE <<>>

\* C29: the queue never holds an item twice; enqueueing a queued item leaves
\* the queue as it is and returns the item's position, a new item goes to
\* the end and its position is returned; pop returns and removes the head
\* (None on an empty queue), so items leave in the order they first came,
\* and the pop that empties the queue removes the flag.  The other flags
\* stay as they are.
C29_PendingQueueFifo ==
    /\ [](pc = "queue" =>
            /\ \A i, j \in 1..Len(PendingQueue) :
                   i # j => PendingQueue[i] # PendingQueue[j]
            /\ "pending_memory" \in DOMAIN memory.flags => PendingQueue # <<>>)
    /\ [][pc = "queue" =>
            /\ [k \in DOMAIN memory'.flags \ {"pending_memory"} |-> memory'.flags[k]]
                 = [k \in DOMAIN memory.flags \ {"pending_memory"} |-> memory.flags[k]]
            /\ IF result'.op = "enqueue" THEN
                   LET item == [kind |-> result'.kind, text |-> result'.text]
                       at == {i \in 1..Len(PendingQueue) : PendingQueue[i] = item}
                   IN  IF at # {}
                       THEN PendingQueue' = PendingQueue /\ result'.value \in at
                       ELSE /\ PendingQueue' = Append(PendingQueue, item)
                            /\ result'.value = Len(PendingQueue')
               ELSE
                   IF PendingQueue = <<>>
                   THEN result'.value = None /\ PendingQueue' = <<>>
                   ELSE /\ result'.value = Head(PendingQueue)
                        /\ PendingQueue' = Tail(PendingQueue)]_vars

\* An item enqueued again while second in a queue of three: its position 2
\* is returned.
C29_Witness ==
    /\ pc = "queue"
    /\ Len(PendingQueue) = 3
    /\ result.op = "enqueue"
    /\ result.value = 2
    /\ PendingQueue[2] = [kind |-> result.kind, text |-> result.text]

\* The texts of HeadTexts that are a yes, a no and a statement of a rule.
YesTexts == {"yes", " Yes! ", "ok."}

NoTexts == {"no", "Cancel"}

RuleTexts == {"rule always use tabs", "Rule: never push on friday"}

\* C30: a handle call that finds rules waiting and is not given a
\* pending-view text answers from the confirmation branch; on a yes it
\* removes the head of the queue and saves at most that item as a note, on
\* a no it removes the head and saves nothing, on the statement of a rule
\* it appends at most one item, and on any other text it leaves the queue as
\* it is; only a yes saves a note.
C30_ConfirmationFirst ==
    [][(pc = "head" /\ PendingQueue # <<>> /\ result'.text # "pending") =>
          /\ result'.branch = "confirm"
          /\ IF result'.text \in YesTexts THEN
                 /\ PendingQueue' = Tail(PendingQueue)
                 /\ \/ loc'.saved = loc.saved
                    \/ loc'.saved =
                         Append(loc.saved, [tag |-> Head(PendingQueue).kind,
                                            text |-> Head(PendingQueue).text])
             ELSE IF result'.text \in NoTexts THEN
                 /\ PendingQueue' = Tail(PendingQueue)
                 /\ loc'.saved = loc.saved
             ELSE IF result'.text \in RuleTexts THEN
                 /\ loc'.saved = loc.saved
                 /\ \/ PendingQueue' = PendingQueue
                    \/ /\ Len(PendingQueue') = Len(PendingQueue) + 1
                       /\ SubSeq(PendingQueue', 1, Len(PendingQueue)) = PendingQueue
             ELSE
                 /\ loc'.saved = loc.saved
                 /\ PendingQueue' = PendingQueue]_vars

\* A yes has confirmed the first of two waiting rules: it is saved and the
\* second one is asked about.
C30_Witness ==
    /\ pc = "head"
    /\ result.op = "handle"
    /\ result.text \in YesTexts
    /\ result.branch = "confirm"
    /\ result.reply = "next_rule"
    /\ Len(PendingQueue) = 1
    /\ loc.saved = <<[tag |-> "rule", text |-> "always use tabs"]>>

\* C8: classify_task_type is total; it returns the first type, in the order
\* docs > explain > code > db_analysis > plan > meta, one of whose markers
\* occurs in the lower-cased text, and "other" when no marker occurs; a text
\* with an explain marker and a plan marker (and no docs marker, which comes
\* first) is classified explain, as is "Explain the plan".
C8_ClassifierPrecedence ==
    cType # "?" =>
        LET t == Lower(IF cTask = None THEN "" ELSE cTask)
            hits == {i \in 1..Len(Precedence) : AnyIn(MarkersOf(Precedence[i]), t)}
        IN  /\ cType \in TaskTypes
            /\ IF hits = {} THEN cType = "other"
               ELSE cType = Precedence[MinOf(hits)]
            /\ (AnyIn(explain_markers, t) /\ AnyIn(plan_markers, t)
                  /\ ~AnyIn(docs_markers, t)) => cType = "explain"
            /\ cTask = "Explain the plan" => cType = "explain"

C8_Witness ==
    /\ cTask = "Explain the plan"
    /\ cType = "explain"
    /\ AnyIn(plan_markers, Lower(cTask))

\* C9: registering a class under a name that is already registered raises
\* and leaves the registry as it was, so every name maps to the class of its
\* first successful registration.
C9_DuplicateRejected ==
    /\ (regLast.op = "register" /\ regLast.present) =>
           (regLast.raised # "" /\ REGISTRY = regLast.pre)
    /\ \A n \in DOMAIN REGISTRY : REGISTRY[n] = firstReg[n]

\* C10: create_agent(name) looks the name up case-insensitively; for an
\* unregistered name it raises KeyError with a message that lists every
\* registered name, constructs nothing and leaves the registry unchanged; for
\* a registered name it returns a new instance of the registered class.
C10_CreateAgent ==
    regLast.op = "create" =>
        LET key == Lower(regLast.arg)
        IN  /\ REGISTRY = regLast.pre
            /\ IF key \notin DOMAIN REGISTRY THEN
                   /\ regLast.raised = "KeyError"
                   /\ regLast.instance = None
                   /\ nInst = regLast.made
                   /\ Contains(regLast.message, "'" \o regLast.arg \o "'")
                   /\ \A n \in DOMAIN REGISTRY :
                          Contains(regLast.message, "'" \o n \o "'")
               ELSE
                   /\ regLast.raised = ""
                   /\ regLast.instance.cls = REGISTRY[key]
                   /\ regLast.instance.id > regLast.made
                   /\ nInst = regLast.made + 1

\* An unknown name looked up in a registry of two names, after one agent was
\* constructed by an earlier, successful create_agent.
C10_Witness ==
    /\ regLast.op = "create"
    /\ regLast.raised = "KeyError"
    /\ Cardinality(DOMAIN REGISTRY) = 2
    /\ nInst = 1

====
